---------------------------- MODULE Spec2Model ----------------------------
(***************************************************************************)
(* A model of the moos containers: CompactVec<T, N> (compact_vec.rs),      *)
(* InlineStr (inline_str.rs) and CowStr (cow_str.rs).                      *)
(*                                                                         *)
(* Rust arrays and slices are 0-based; the sequences below are 1-based, so *)
(* the Rust slot inline[i] is inline[i + 1] here.                          *)
(***************************************************************************)
EXTENDS Integers, Sequences, FiniteSets, TLC

VARIABLES
  N,        \* the const generic N of CompactVec<T, N>
  cv,       \* the CompactVec: [inline, len, heap]
  phase,    \* "live" | "consumed" (into_vec / into_iter) | "dropped"
  ctor,     \* the constructor that built cv
  lastOp,   \* the last operation applied to cv
  ret,      \* what the last pop() returned (None before any pop)
  vec,      \* the plain Vec<T> put through the same operations
  vecRet,   \* what the last pop() of that Vec returned
  nextId,   \* identity of the next element value to be created
  drops,    \* drops[e]: how many times element e has been destroyed
  caller,   \* the elements pop() has handed to the caller
  outVec,   \* the Vec returned by into_vec (None before)
  ub,       \* an uninitialized slot has been read or dropped
  obs,      \* what the caller saw of the last call (None if nothing more)
  cv2,      \* the clone taken of cv (None before clone())
  vec2,     \* the plain Vec<T> put through the operations on the clone
  src2,     \* cv as it was when clone() was called (None before)
  c2op,     \* the last operation applied to the clone
  word,     \* size_of::<isize>() of the target, in bytes
  istr,     \* the InlineStr last obtained (None when construction failed)
  sop,      \* the InlineStr entry point last called
  sinput,   \* the bytes of the string the caller holds
  sres,     \* its outcome: "Value", "Ok", "Err" or "Panic"
  scmp,     \* the last comparison involving istr: [lhs, a, b, eq, ord]
  smut,     \* the last as_mut_str() call: [checked, r, before, len]
  cow,      \* the CowStr: Owned(ptr), Borrowed(ptr) or Inlined(InlineStr)
  ctag,     \* the variant cow was constructed as
  mem,      \* string storage outside cow: mem[a] = [live, bytes]
  mref,     \* the &mut slice last handed out by cow (None when released)
  cop,      \* the CowStr operation last called
  crashed,  \* a write through a dangling reference faulted
  other,    \* a second CowStr: the clone of cow, or one built from oinput
  oinput,   \* the bytes of the string other was built from
  ccmp,     \* the results of comparing cow with other (None before)
  cout,     \* what converting cow out of CowStr gave: [op, from, src, r]
  sN,       \* the const generic N of SmallString<N>
  ss,       \* the SmallString: [inner] (None before construction)
  ssrc,     \* the bytes of the strings and chars given to ss, in call order
  ssop,     \* the SmallString operation last called
  sout      \* the String that consumed ss (None before)

vecVars == <<N, cv, phase, ctor, lastOp, ret, vec, vecRet, nextId, drops,
             caller, outVec, ub, obs>>

cloneVars == <<cv2, vec2, src2, c2op>>

strVars == <<word, istr, sop, sinput, sres, scmp, smut>>

cowVars ==
  <<cow, ctag, mem, mref, cop, crashed, other, oinput, ccmp, cout>>

smallVars == <<sN, ss, ssrc, ssop, sout>>

vars == <<vecVars, cloneVars, strVars, cowVars, smallVars>>

\* what the CompactVec and the InlineStr actions leave alone
notVec == <<cloneVars, strVars, cowVars, smallVars>>

notStr == <<vecVars, cloneVars, cowVars, smallVars>>

notCow == <<vecVars, cloneVars, strVars, smallVars>>

notSmall == <<vecVars, cloneVars, strVars, cowVars>>

-----------------------------------------------------------------------------
(* Bounds of the model.                                                    *)

MaxN == 2

MaxElems == 5

MaxExtend == 2

\* with_capacity(c) is tried for c in 0 .. MaxN + CapSlack
CapSlack == 2

\* input strings end in at most MaxTail arbitrary characters
MaxTail == 2

\* SmallString<N> is tried for N in 0 .. MaxSmallN
MaxSmallN == 4

\* a SmallString grows to at most MaxBytes bytes
MaxBytes == 8

-----------------------------------------------------------------------------
(* Option<T>                                                               *)

None == [tag |-> "None"]

Some(v) == [tag |-> "Some", v |-> v]

IsSome(o) == o.tag = "Some"

Max(a, b) == IF a >= b THEN a ELSE b

Min(a, b) == IF a <= b THEN a ELSE b

\* the bit pattern of a MaybeUninit slot that was never written
Uninit == 0

Elems == 1 .. MaxElems

-----------------------------------------------------------------------------
(* alloc::vec::Vec<T>, as far as CompactVec uses it: [buf, cap]            *)

Vec_with_capacity(c) == [buf |-> <<>>, cap |-> c]

\* amortized growth: a full Vec at least doubles
Vec_push(v, value) ==
  [buf |-> Append(v.buf, value),
   cap |-> IF Len(v.buf) < v.cap THEN v.cap
           ELSE Max(2 * v.cap, Len(v.buf) + 1)]

Vec_pop(v) ==
  IF Len(v.buf) = 0
  THEN [vec |-> v, ret |-> None]
  ELSE [vec |-> [v EXCEPT !.buf = SubSeq(v.buf, 1, Len(v.buf) - 1)],
        ret |-> Some(v.buf[Len(v.buf)])]

-----------------------------------------------------------------------------
(* CompactVec<T, N>                                                        *)

CompactVec_new(n) ==
  [inline |-> [i \in 1 .. n |-> Uninit], len |-> 0, heap |-> None]

\* with_capacity that never allocates
CompactVec_with_capacity_lazy(n, capacity) == CompactVec_new(n)

CompactVec_with_capacity(n, capacity) ==
  IF capacity <= n
  THEN CompactVec_new(n)
  ELSE [inline |-> [i \in 1 .. n |-> Uninit],
        len    |-> 0,
        heap   |-> Some(Vec_with_capacity(capacity))]

CompactVec_len(self) ==
  IF IsSome(self.heap) THEN Len(self.heap.v.buf) ELSE self.len

CompactVec_is_empty(self) == CompactVec_len(self) = 0

\* capacity that reports the inline capacity whatever the representation
CompactVec_capacity_inline_only(self, n) == n

CompactVec_capacity(self, n) ==
  IF IsSome(self.heap) THEN self.heap.v.cap ELSE n

CompactVec_is_inline(self) == ~IsSome(self.heap)

CompactVec_as_slice(self) ==
  IF IsSome(self.heap)
  THEN self.heap.v.buf
  ELSE [i \in 1 .. self.len |-> self.inline[i]]

\* the spill loop of push: vec.push(inline[i].assume_init_read()) for i in 0..len
RECURSIVE SpillInto(_, _, _, _)
SpillInto(v, inline, i, len) ==
  IF i > len THEN v
  ELSE SpillInto(Vec_push(v, inline[i]), inline, i + 1, len)

\* push that spills one element early
CompactVec_push_early(self, n, value) ==
  IF IsSome(self.heap)
  THEN [self EXCEPT !.heap = Some(Vec_push(self.heap.v, value))]
  ELSE IF self.len + 1 < n
       THEN [self EXCEPT !.inline[self.len + 1] = value,
                         !.len = self.len + 1]
       ELSE [self EXCEPT
               !.heap = Some(Vec_push(
                          SpillInto(Vec_with_capacity(n * 2 + 1),
                                    self.inline, 1, self.len),
                          value)),
               !.len = 0]

\* push whose spill leaves the inline length field as it was
CompactVec_push_keeps_len(self, n, value) ==
  IF IsSome(self.heap)
  THEN [self EXCEPT !.heap = Some(Vec_push(self.heap.v, value))]
  ELSE IF self.len < n
       THEN [self EXCEPT !.inline[self.len + 1] = value,
                         !.len = self.len + 1]
       ELSE [self EXCEPT
               !.heap = Some(Vec_push(
                          SpillInto(Vec_with_capacity(n * 2 + 1),
                                    self.inline, 1, self.len),
                          value))]

CompactVec_push(self, n, value) ==
  IF IsSome(self.heap)
  THEN [self EXCEPT !.heap = Some(Vec_push(self.heap.v, value))]
  ELSE IF self.len < n
       THEN [self EXCEPT !.inline[self.len + 1] = value,
                         !.len = self.len + 1]
       ELSE [self EXCEPT
               !.heap = Some(Vec_push(
                          SpillInto(Vec_with_capacity(n * 2 + 1),
                                    self.inline, 1, self.len),
                          value)),
               !.len = 0]

\* the demotion loop of pop: inline[new_len].write(elem) for elem in heap.drain(..)
RECURSIVE DrainInto(_, _, _)

\* a demotion loop that counts the elements but leaves the slots unwritten
DrainInto_unwritten(inline, buf, new_len) ==
  [inline |-> inline, new_len |-> Len(buf)]

DrainInto(inline, buf, new_len) ==
  IF new_len >= Len(buf) THEN [inline |-> inline, new_len |-> new_len]
  ELSE DrainInto([inline EXCEPT ![new_len + 1] = buf[new_len + 1]],
                 buf, new_len + 1)

\* pop that never moves a spilled vector back inline
CompactVec_pop_no_demote(self, n) ==
  IF IsSome(self.heap)
  THEN LET p == Vec_pop(self.heap.v) IN
       [self |-> [self EXCEPT !.heap = Some(p.vec)], ret |-> p.ret]
  ELSE IF self.len = 0
       THEN [self |-> self, ret |-> None]
       ELSE [self |-> [self EXCEPT !.len = self.len - 1],
             ret  |-> Some(self.inline[self.len])]

\* pop that moves back inline whenever the Vec fits, also when it popped
\* nothing
CompactVec_pop_demote_empty(self, n) ==
  IF IsSome(self.heap)
  THEN LET p == Vec_pop(self.heap.v) IN
       IF Len(p.vec.buf) <= n
       THEN LET d == DrainInto(self.inline, p.vec.buf, 0) IN
            [self |-> [inline |-> d.inline, len |-> d.new_len, heap |-> None],
             ret  |-> p.ret]
       ELSE [self |-> [self EXCEPT !.heap = Some(p.vec)], ret |-> p.ret]
  ELSE IF self.len = 0
       THEN [self |-> self, ret |-> None]
       ELSE [self |-> [self EXCEPT !.len = self.len - 1],
             ret  |-> Some(self.inline[self.len])]

\* returns [self, ret]
CompactVec_pop(self, n) ==
  IF IsSome(self.heap)
  THEN LET p == Vec_pop(self.heap.v) IN
       IF IsSome(p.ret)
       THEN IF Len(p.vec.buf) <= n
            THEN LET d == DrainInto(self.inline, p.vec.buf, 0) IN
                 [self |-> [inline |-> d.inline, len |-> d.new_len,
                            heap |-> None],
                  ret  |-> p.ret]
            ELSE [self |-> [self EXCEPT !.heap = Some(p.vec)], ret |-> p.ret]
       ELSE [self |-> self, ret |-> None]
  ELSE IF self.len = 0
       THEN [self |-> self, ret |-> None]
       ELSE [self |-> [self EXCEPT !.len = self.len - 1],
             ret  |-> Some(self.inline[self.len])]

\* the elements a representation destroys, in order: heap.clear(), or
\* inline[i].assume_init_drop() for i in 0..len
LiveSlots(self) ==
  IF IsSome(self.heap)
  THEN self.heap.v.buf
  ELSE [i \in 1 .. self.len |-> self.inline[i]]

\* clear that destroys the elements but keeps the inline length
CompactVec_clear_keeps_len(self) ==
  [self    |-> [self EXCEPT !.heap = None],
   dropped |-> LiveSlots(self)]

\* clear that empties the heap Vec and keeps it
CompactVec_clear_keeps_heap(self) ==
  [self    |-> IF IsSome(self.heap)
               THEN [self EXCEPT !.heap = Some([buf |-> <<>>,
                                                cap |-> self.heap.v.cap])]
               ELSE [self EXCEPT !.len = 0],
   dropped |-> LiveSlots(self)]

\* returns [self, dropped]
CompactVec_clear(self) ==
  [self    |-> [self EXCEPT !.heap = None, !.len = 0],
   dropped |-> LiveSlots(self)]

RECURSIVE CompactVec_extend(_, _, _)

\* extend that takes the items from the back of the sequence
CompactVec_extend_reversed(self, n, iter) ==
  IF iter = <<>> THEN self
  ELSE CompactVec_extend(CompactVec_push(self, n, iter[Len(iter)]), n,
                         SubSeq(iter, 1, Len(iter) - 1))

CompactVec_extend(self, n, iter) ==
  IF iter = <<>> THEN self
  ELSE CompactVec_extend(CompactVec_push(self, n, Head(iter)), n, Tail(iter))

\* is_inline() on entry to extend and after each push of its loop
RECURSIVE ExtendSteps(_, _, _)
ExtendSteps(self, n, iter) ==
  IF iter = <<>> THEN <<CompactVec_is_inline(self)>>
  ELSE <<CompactVec_is_inline(self)>>
       \o ExtendSteps(CompactVec_push(self, n, Head(iter)), n, Tail(iter))

CompactVec_from_iter(n, iter) == CompactVec_extend(CompactVec_new(n), n, iter)

\* impl Clone: a spilled vector clones its Vec (an exact-size allocation) and
\* stays on the heap, an inline one is rebuilt by pushes
CompactVec_clone_rebuilt(self, n) ==
  CompactVec_extend(CompactVec_new(n), n, CompactVec_as_slice(self))

CompactVec_clone(self, n) ==
  IF IsSome(self.heap)
  THEN [inline |-> [i \in 1 .. n |-> Uninit],
        len    |-> 0,
        heap   |-> Some([buf |-> self.heap.v.buf,
                         cap |-> Len(self.heap.v.buf)])]
  ELSE CompactVec_extend(CompactVec_new(n), n, CompactVec_as_slice(self))

\* impl Drop: the elements destroyed when self goes out of scope
CompactVec_drop(self) == LiveSlots(self)

\* into_vec that always copies as_slice() into a new Vec of that length
CompactVec_into_vec_copy(self) ==
  [vec  |-> [buf |-> CompactVec_as_slice(self),
             cap |-> CompactVec_len(self)],
   self |-> IF IsSome(self.heap) THEN [self EXCEPT !.heap = None] ELSE self]

\* returns [vec, self]: the Vec handed out, and self as it is when it goes
\* out of scope at the end of into_vec (heap taken, len untouched)
CompactVec_into_vec(self) ==
  IF IsSome(self.heap)
  THEN [vec |-> self.heap.v, self |-> [self EXCEPT !.heap = None]]
  ELSE [vec  |-> SpillInto(Vec_with_capacity(self.len), self.inline, 1,
                           self.len),
        self |-> self]

\* impl Index for a slot inside the inline array, without the length check
CompactVec_index_unchecked(self, index) ==
  IF IsSome(self.heap)
  THEN IF index < Len(self.heap.v.buf)
       THEN [tag |-> "Value", v |-> self.heap.v.buf[index + 1]]
       ELSE [tag |-> "Panic"]
  ELSE IF index < Len(self.inline)
       THEN [tag |-> "Value", v |-> self.inline[index + 1]]
       ELSE [tag |-> "Panic"]

\* impl Index: &heap[index] panics past the Vec's length, the inline arm
\* asserts index < len
CompactVec_index(self, index) ==
  IF IsSome(self.heap)
  THEN IF index < Len(self.heap.v.buf)
       THEN [tag |-> "Value", v |-> self.heap.v.buf[index + 1]]
       ELSE [tag |-> "Panic"]
  ELSE IF index < self.len
       THEN [tag |-> "Value", v |-> self.inline[index + 1]]
       ELSE [tag |-> "Panic"]

\* impl IndexMut: the place referred to, [heap, slot], or a panic
CompactVec_index_mut(self, index) ==
  IF IsSome(self.heap)
  THEN IF index < Len(self.heap.v.buf)
       THEN [tag |-> "Value", v |-> [heap |-> TRUE, slot |-> index + 1]]
       ELSE [tag |-> "Panic"]
  ELSE IF index < self.len
       THEN [tag |-> "Value", v |-> [heap |-> FALSE, slot |-> index + 1]]
       ELSE [tag |-> "Panic"]

\* *place = value through the reference index_mut returned
WritePlace(self, place, value) ==
  IF place.heap
  THEN [self EXCEPT !.heap = Some([self.heap.v EXCEPT
                                     !.buf[place.slot] = value])]
  ELSE [self EXCEPT !.inline[place.slot] = value]

\* the value the place holds
ReadPlace(self, place) ==
  IF place.heap THEN self.heap.v.buf[place.slot] ELSE self.inline[place.slot]

\* impl Ord for [T]: the elements compared in order, then the lengths
slice_cmp(a, b) ==
  LET d == {i \in 1 .. Min(Len(a), Len(b)) : a[i] # b[i]} IN
  IF d = {}
  THEN IF Len(a) < Len(b) THEN "Less"
       ELSE IF Len(a) > Len(b) THEN "Greater" ELSE "Equal"
  ELSE LET i == CHOOSE k \in d : \A j \in d : k <= j IN
       IF a[i] < b[i] THEN "Less" ELSE "Greater"

\* impl Hash for [T], as the values fed to the Hasher: the length, then
\* each element
slice_hash(a) == <<Len(a)>> \o a

\* an equality of the fields, as #[derive(PartialEq)] would give
CompactVec_eq_fields(self, that) == self = that

\* impl PartialEq for CompactVec
CompactVec_eq(self, that) ==
  CompactVec_as_slice(self) = CompactVec_as_slice(that)

\* impl PartialOrd for CompactVec
CompactVec_partial_cmp(self, that) ==
  Some(slice_cmp(CompactVec_as_slice(self), CompactVec_as_slice(that)))

\* impl Ord for CompactVec
CompactVec_cmp(self, that) ==
  slice_cmp(CompactVec_as_slice(self), CompactVec_as_slice(that))

\* impl Hash for CompactVec
CompactVec_hash(self) == slice_hash(CompactVec_as_slice(self))

\* a Serialize that walks the inline array only
CompactVec_serialize_inline_only(self) ==
  [len_hint |-> Some(self.len),
   elems    |-> [i \in 1 .. self.len |-> self.inline[i]]]

\* impl Serialize: serialize_seq(Some(self.len())), then serialize_element
\* for each element of as_slice(), then end()
CompactVec_serialize(self) ==
  [len_hint |-> Some(CompactVec_len(self)),
   elems    |-> CompactVec_as_slice(self)]

\* impl Deserialize, CompactVecVisitor::visit_seq: CompactVec::new(), then
\* vec.push(value) for every element the sequence yields
RECURSIVE visit_seq(_, _, _)
visit_seq(acc, n, seq) ==
  IF seq = <<>> THEN acc
  ELSE visit_seq(CompactVec_push(acc, n, Head(seq)), n, Tail(seq))

CompactVec_deserialize(n, seq) == visit_seq(CompactVec_new(n), n, seq)

-----------------------------------------------------------------------------
(* Destruction bookkeeping                                                 *)

Range(s) == {s[i] : i \in DOMAIN s}

Count(s, e) == Cardinality({i \in DOMAIN s : s[i] = e})

\* destroy every element of the sequence s once per occurrence
AddDrops(d, s) == [e \in DOMAIN d |-> d[e] + Count(s, e)]

\* the k fresh elements nextId, nextId + 1, ...
Fresh(from, k) == [i \in 1 .. k |-> from + i - 1]

-----------------------------------------------------------------------------
(* CompactVec state machine                                                *)

VecInitWith(n, c, how, k, o) ==
  /\ N = n
  /\ cv = c
  /\ phase = "live"
  /\ ctor = how
  /\ lastOp = how
  /\ ret = None
  /\ vec = Fresh(1, k)
  /\ vecRet = None
  /\ nextId = k + 1
  /\ drops = [e \in Elems |-> 0]
  /\ caller = {}
  /\ outVec = None
  /\ ub = FALSE
  /\ obs = o
  /\ cv2 = None
  /\ vec2 = <<>>
  /\ src2 = None
  /\ c2op = "none"

VecInit ==
  \E n \in 0 .. MaxN :
    \/ VecInitWith(n, CompactVec_new(n), "new", 0, None)
    \/ \E c \in 0 .. MaxN + CapSlack :
         VecInitWith(n, CompactVec_with_capacity(n, c), "with_capacity", 0,
                     Some([kind |-> "with_capacity", capacity |-> c]))
    \/ \E k \in 1 .. MaxExtend + 1 :
         VecInitWith(n, CompactVec_from_iter(n, Fresh(1, k)), "from_iter", k,
                     None)

Push ==
  /\ phase = "live"
  /\ nextId <= MaxElems
  /\ cv' = CompactVec_push(cv, N, nextId)
  /\ vec' = Append(vec, nextId)
  /\ nextId' = nextId + 1
  /\ lastOp' = "push"
  /\ obs' = Some([kind |-> "push", was_inline |-> CompactVec_is_inline(cv)])
  /\ UNCHANGED <<N, phase, ctor, ret, vecRet, drops, caller, outVec, ub>>
  /\ UNCHANGED notVec

Pop ==
  /\ phase = "live"
  /\ LET p == CompactVec_pop(cv, N) IN
       /\ cv' = p.self
       /\ ret' = p.ret
       /\ caller' = IF IsSome(p.ret) THEN caller \cup {p.ret.v} ELSE caller
       /\ ub' = (ub \/ (IsSome(p.ret) /\ p.ret.v = Uninit))
  /\ vec' = IF vec = <<>> THEN vec ELSE SubSeq(vec, 1, Len(vec) - 1)
  /\ vecRet' = IF vec = <<>> THEN None ELSE Some(vec[Len(vec)])
  /\ lastOp' = "pop"
  /\ obs' = Some([kind |-> "pop", before |-> cv])
  /\ UNCHANGED <<N, phase, ctor, nextId, drops, outVec>>
  /\ UNCHANGED notVec

Clear ==
  /\ phase = "live"
  /\ LET c == CompactVec_clear(cv) IN
       /\ cv' = c.self
       /\ drops' = AddDrops(drops, c.dropped)
       /\ ub' = (ub \/ Uninit \in Range(c.dropped))
  /\ vec' = <<>>
  /\ lastOp' = "clear"
  /\ obs' = Some([kind      |-> "clear",
                  was_inline |-> CompactVec_is_inline(cv),
                  was_len    |-> CompactVec_len(cv)])
  /\ UNCHANGED <<N, phase, ctor, ret, vecRet, nextId, caller, outVec>>
  /\ UNCHANGED notVec

Extend ==
  /\ phase = "live"
  /\ \E k \in 1 .. MaxExtend :
       /\ nextId + k - 1 <= MaxElems
       /\ cv' = CompactVec_extend(cv, N, Fresh(nextId, k))
       /\ vec' = vec \o Fresh(nextId, k)
       /\ nextId' = nextId + k
       /\ obs' = Some([kind   |-> "extend",
                       before |-> CompactVec_as_slice(cv),
                       items  |-> Fresh(nextId, k),
                       inline |-> ExtendSteps(cv, N, Fresh(nextId, k))])
  /\ lastOp' = "extend"
  /\ UNCHANGED <<N, phase, ctor, ret, vecRet, drops, caller, outVec, ub>>
  /\ UNCHANGED notVec

\* into_vec(mut self): builds the Vec, then self is dropped on return
IntoVecAs(op) ==
  /\ phase = "live"
  /\ LET r == CompactVec_into_vec(cv)
         d == CompactVec_drop(r.self)
     IN
       /\ outVec' = Some(r.vec)
       /\ cv' = r.self
       /\ drops' = AddDrops(drops, d)
       /\ ub' = (ub \/ Uninit \in Range(d))
  /\ phase' = "consumed"
  /\ lastOp' = op
  /\ obs' = Some([kind   |-> op,
                  before |-> CompactVec_as_slice(cv),
                  heap   |-> cv.heap])
  /\ UNCHANGED <<N, ctor, ret, vec, vecRet, nextId, caller>>
  /\ UNCHANGED notVec

IntoVec == IntoVecAs("into_vec")

\* into_iter(self) is self.into_vec().into_iter()
IntoIter == IntoVecAs("into_iter")

Drop ==
  /\ phase = "live"
  /\ LET d == CompactVec_drop(cv) IN
       /\ drops' = AddDrops(drops, d)
       /\ ub' = (ub \/ Uninit \in Range(d))
  /\ phase' = "dropped"
  /\ lastOp' = "drop"
  /\ obs' = None
  /\ UNCHANGED <<N, cv, ctor, ret, vec, vecRet, nextId, caller, outVec>>
  /\ UNCHANGED notVec

\* let r = cv[i], for an index up to one past the end
IndexAt ==
  /\ phase = "live"
  /\ \E i \in 0 .. CompactVec_len(cv) + 1 :
       obs' = Some([kind |-> "index", i |-> i, r |-> CompactVec_index(cv, i)])
  /\ lastOp' = "index"
  /\ UNCHANGED <<N, cv, phase, ctor, ret, vec, vecRet, nextId, drops, caller,
                 outVec, ub>>
  /\ UNCHANGED notVec

\* cv[i] = value: index_mut, then the assignment destroys the old value
IndexMutAt ==
  /\ phase = "live"
  /\ nextId <= MaxElems
  /\ \E i \in 0 .. CompactVec_len(cv) + 1 :
       LET r == CompactVec_index_mut(cv, i) IN
         /\ obs' = Some([kind |-> "index_mut", i |-> i, r |-> r,
                         before |-> CompactVec_as_slice(cv), value |-> nextId])
         /\ IF r.tag = "Value"
            THEN /\ cv' = WritePlace(cv, r.v, nextId)
                 /\ drops' = AddDrops(drops, <<ReadPlace(cv, r.v)>>)
                 /\ vec' = [vec EXCEPT ![i + 1] = nextId]
                 /\ nextId' = nextId + 1
            ELSE UNCHANGED <<cv, drops, vec, nextId>>
  /\ lastOp' = "index_mut"
  /\ UNCHANGED <<N, phase, ctor, ret, vecRet, caller, outVec, ub>>
  /\ UNCHANGED notVec

\* the element sequences a second container is given: the same, one
\* shorter, one longer, and one differing in the last element
OtherSeqs(a) ==
  {a, a \o <<1>>}
  \cup (IF a = <<>> THEN {}
        ELSE {SubSeq(a, 1, Len(a) - 1), [a EXCEPT ![Len(a)] = @ + 1]})

\* a second container is built by new() or with_capacity(N + 1) and extend,
\* then cv == that, cv.partial_cmp(&that), cv.cmp(&that) and the hashes
CompareWith ==
  /\ phase = "live"
  /\ \E b \in OtherSeqs(CompactVec_as_slice(cv)), c \in {0, N + 1} :
       LET that == CompactVec_extend(CompactVec_with_capacity(N, c), N, b) IN
         obs' = Some([kind  |-> "cmp",
                      that  |-> that,
                      eq    |-> CompactVec_eq(cv, that),
                      pord  |-> CompactVec_partial_cmp(cv, that),
                      ord   |-> CompactVec_cmp(cv, that),
                      hash  |-> CompactVec_hash(cv),
                      hash2 |-> CompactVec_hash(that)])
  /\ lastOp' = "cmp"
  /\ UNCHANGED <<N, cv, phase, ctor, ret, vec, vecRet, nextId, drops, caller,
                 outVec, ub>>
  /\ UNCHANGED notVec

\* to_string(&cv), then from_str of what was written
SerdeRoundTrip ==
  /\ phase = "live"
  /\ LET ser == CompactVec_serialize(cv) IN
       obs' = Some([kind |-> "serde",
                    ser  |-> ser,
                    de   |-> CompactVec_deserialize(N, ser.elems)])
  /\ lastOp' = "serde"
  /\ UNCHANGED <<N, cv, phase, ctor, ret, vec, vecRet, nextId, drops, caller,
                 outVec, ub>>
  /\ UNCHANGED notVec

\* let mut cv2 = cv.clone()
CloneVec ==
  /\ phase = "live"
  /\ cv2 = None
  /\ cv2' = Some(CompactVec_clone(cv, N))
  /\ vec2' = vec
  /\ src2' = Some(cv)
  /\ c2op' = "clone"
  /\ UNCHANGED <<vecVars, strVars, cowVars, smallVars>>

\* cv2.push(value), the first call on the clone
ClonePush ==
  /\ IsSome(cv2)
  /\ c2op = "clone"
  /\ nextId <= MaxElems
  /\ cv2' = Some(CompactVec_push(cv2.v, N, nextId))
  /\ vec2' = Append(vec2, nextId)
  /\ nextId' = nextId + 1
  /\ c2op' = "push"
  /\ UNCHANGED <<N, cv, phase, ctor, lastOp, ret, vec, vecRet, drops, caller,
                 outVec, ub, obs, src2>>
  /\ UNCHANGED <<strVars, cowVars, smallVars>>

\* cv2.pop(), the first call on the clone
ClonePop ==
  /\ IsSome(cv2)
  /\ c2op = "clone"
  /\ cv2' = Some(CompactVec_pop(cv2.v, N).self)
  /\ vec2' = IF vec2 = <<>> THEN vec2 ELSE SubSeq(vec2, 1, Len(vec2) - 1)
  /\ c2op' = "pop"
  /\ UNCHANGED <<vecVars, src2, strVars, cowVars, smallVars>>

\* cv2.clear(), the first call on the clone
CloneClear ==
  /\ IsSome(cv2)
  /\ c2op = "clone"
  /\ cv2' = Some(CompactVec_clear(cv2.v).self)
  /\ vec2' = <<>>
  /\ c2op' = "clear"
  /\ UNCHANGED <<vecVars, src2, strVars, cowVars, smallVars>>

\* cv2[i] = value, for an index below len(), the first call on the clone
CloneWrite ==
  /\ IsSome(cv2)
  /\ c2op = "clone"
  /\ nextId <= MaxElems
  /\ \E i \in 0 .. CompactVec_len(cv2.v) - 1 :
       LET r == CompactVec_index_mut(cv2.v, i) IN
         /\ r.tag = "Value"
         /\ cv2' = Some(WritePlace(cv2.v, r.v, nextId))
         /\ vec2' = [vec2 EXCEPT ![i + 1] = nextId]
  /\ nextId' = nextId + 1
  /\ c2op' = "write"
  /\ UNCHANGED <<N, cv, phase, ctor, lastOp, ret, vec, vecRet, drops, caller,
                 outVec, ub, obs, src2>>
  /\ UNCHANGED <<strVars, cowVars, smallVars>>

VecNext == Push \/ Pop \/ Clear \/ Extend \/ IntoVec \/ IntoIter \/ Drop

-----------------------------------------------------------------------------
(* UTF-8                                                                   *)

\* char::len_utf8
len_utf8(c) ==
  IF c < 128 THEN 1 ELSE IF c < 2048 THEN 2 ELSE IF c < 65536 THEN 3 ELSE 4

\* char::encode_utf8, as the sequence of bytes written
encode_utf8(c) ==
  IF c < 128 THEN <<c>>
  ELSE IF c < 2048 THEN <<192 + (c \div 64), 128 + (c % 64)>>
  ELSE IF c < 65536
       THEN <<224 + (c \div 4096), 128 + ((c \div 64) % 64), 128 + (c % 64)>>
       ELSE <<240 + (c \div 262144), 128 + ((c \div 4096) % 64),
              128 + ((c \div 64) % 64), 128 + (c % 64)>>

IsCont(b) == b >= 128 /\ b <= 191

\* the length of the well-formed UTF-8 sequence starting at b[i], 0 if none
SeqLenAt(b, i) ==
  LET n  == Len(b)
      b0 == b[i]
      b1 == IF i + 1 <= n THEN b[i + 1] ELSE 0
      c2 == i + 2 <= n /\ IsCont(b[i + 2])
      c3 == i + 3 <= n /\ IsCont(b[i + 3])
  IN
  IF b0 < 128 THEN 1
  ELSE IF b0 >= 194 /\ b0 <= 223 THEN (IF IsCont(b1) THEN 2 ELSE 0)
  ELSE IF b0 = 224 THEN (IF b1 >= 160 /\ b1 <= 191 /\ c2 THEN 3 ELSE 0)
  ELSE IF b0 = 237 THEN (IF b1 >= 128 /\ b1 <= 159 /\ c2 THEN 3 ELSE 0)
  ELSE IF b0 >= 225 /\ b0 <= 239 THEN (IF IsCont(b1) /\ c2 THEN 3 ELSE 0)
  ELSE IF b0 = 240 THEN (IF b1 >= 144 /\ b1 <= 191 /\ c2 /\ c3 THEN 4 ELSE 0)
  ELSE IF b0 = 244 THEN (IF b1 >= 128 /\ b1 <= 143 /\ c2 /\ c3 THEN 4 ELSE 0)
  ELSE IF b0 >= 241 /\ b0 <= 243 THEN (IF IsCont(b1) /\ c2 /\ c3 THEN 4 ELSE 0)
  ELSE 0

RECURSIVE ValidFrom(_, _)
ValidFrom(b, i) ==
  IF i > Len(b) THEN TRUE
  ELSE LET k == SeqLenAt(b, i) IN
       IF k = 0 THEN FALSE ELSE ValidFrom(b, i + k)

\* core::str::from_utf8(b).is_ok()
from_utf8_ok(b) == ValidFrom(b, 1)

\* impl Ord for str: the bytes compared lexicographically, then the lengths
str_cmp(a, b) ==
  LET d == {i \in 1 .. Min(Len(a), Len(b)) : a[i] # b[i]} IN
  IF d = {}
  THEN IF Len(a) < Len(b) THEN "Less"
       ELSE IF Len(a) > Len(b) THEN "Greater" ELSE "Equal"
  ELSE LET i == CHOOSE k \in d : \A j \in d : k <= j IN
       IF a[i] < b[i] THEN "Less" ELSE "Greater"

\* impl Hash for str, as the bytes fed to the Hasher: write(bytes), write_u8(0xff)
str_hash(a) == Append(a, 255)

\* str::chars().next() on valid UTF-8: the first character, decoded
first_char(b) ==
  IF Len(b) = 0 THEN None
  ELSE LET k == SeqLenAt(b, 1) IN
       Some(IF k = 1 THEN b[1]
            ELSE IF k = 2 THEN ((b[1] - 192) * 64) + (b[2] - 128)
            ELSE IF k = 3
                 THEN ((b[1] - 224) * 4096) + ((b[2] - 128) * 64) + (b[3] - 128)
                 ELSE ((b[1] - 240) * 262144) + ((b[2] - 128) * 4096)
                      + ((b[3] - 128) * 64) + (b[4] - 128))

\* impl Ord for char: the order of the code points
char_cmp(a, b) == IF a < b THEN "Less" ELSE IF a > b THEN "Greater" ELSE "Equal"

-----------------------------------------------------------------------------
(* InlineStr                                                               *)

\* an inline capacity that reserves no byte for the length and the tag
MAX_INLINE_STR_LEN_unreserved == 3 * word

MAX_INLINE_STR_LEN == 3 * word - 2

Panic == [tag |-> "Panic"]

StringTooLongError == [tag |-> "Err", e |-> "StringTooLongError"]

Ok(v) == [tag |-> "Ok", v |-> v]

\* the outcome of a call that returns v without panicking
Value(v) == [tag |-> "Value", v |-> v]

\* what stands for the slice when taking it panics: no sequence of bytes
NoBytes == <<-1>>

\* `x as u8`
as_u8(x) == x % 256

\* let mut buf = [0u8; MAX_INLINE_STR_LEN]; buf[..len].copy_from_slice(&src[..len])
CopyIntoBuf(src, len) ==
  [i \in 1 .. MAX_INLINE_STR_LEN |-> IF i <= len THEN src[i] ELSE 0]

InlineStr_new(buf, len) == [buf |-> buf, len |-> len]

InlineStr_len(self) == self.len

\* &self.buf[..self.len as usize]: the slice index panics past the buffer
InlineStr_as_bytes(self) ==
  IF self.len > Len(self.buf) THEN NoBytes
  ELSE [i \in 1 .. self.len |-> self.buf[i]]

\* a str is modelled by its bytes
InlineStr_as_str(self) ==
  LET b == InlineStr_as_bytes(self) IN
  IF b = NoBytes THEN NoBytes
  ELSE IF from_utf8_ok(b) THEN b ELSE NoBytes

InlineStr_default == [buf |-> [i \in 1 .. MAX_INLINE_STR_LEN |-> 0], len |-> 0]

\* a From<char> that stores the low byte of the scalar value
InlineStr_from_char_low_byte(c) ==
  [buf |-> CopyIntoBuf(<<c % 256>>, 1), len |-> 1]

\* impl From<char> for InlineStr
InlineStr_from_char(c) ==
  [buf |-> CopyIntoBuf(encode_utf8(c), len_utf8(c)),
   len |-> as_u8(len_utf8(c))]

\* impl From<Cow<str>> for InlineStr
InlineStr_from_cow(src) ==
  LET len == Min(Len(src), MAX_INLINE_STR_LEN) IN
  [buf |-> CopyIntoBuf(src, len), len |-> as_u8(len)]

\* impl From<String> for InlineStr
InlineStr_from_string(src) ==
  LET len == Min(Len(src), MAX_INLINE_STR_LEN) IN
  [buf |-> CopyIntoBuf(src, len), len |-> as_u8(len)]

\* try_from that rejects a string of exactly MAX_INLINE_STR_LEN bytes
InlineStr_try_from_strict(s) ==
  LET len == Len(s) IN
  IF len >= MAX_INLINE_STR_LEN THEN StringTooLongError
  ELSE Ok([buf |-> CopyIntoBuf(s, len), len |-> as_u8(len)])

\* impl TryFrom<&str> for InlineStr
InlineStr_try_from(s) ==
  LET len == Len(s) IN
  IF len > MAX_INLINE_STR_LEN THEN StringTooLongError
  ELSE Ok([buf |-> CopyIntoBuf(s, len), len |-> as_u8(len)])

\* impl FromStr for InlineStr
InlineStr_from_str(s) == InlineStr_try_from(s)

\* impl From<&T> for InlineStr: try_from(..).expect(..)
InlineStr_from_ref(s) ==
  LET r == InlineStr_try_from(s) IN
  IF r.tag = "Ok" THEN Value(r.v) ELSE Panic

\* str::make_ascii_uppercase on the bytes of a slice
make_ascii_uppercase(b) ==
  [i \in DOMAIN b |-> IF b[i] >= 97 /\ b[i] <= 122 THEN b[i] - 32 ELSE b[i]]

Utf8Error == [tag |-> "Err", e |-> "Utf8Error"]

\* an as_mut_str that accepts ASCII text only
InlineStr_as_mut_str_ascii(self) ==
  LET b == InlineStr_as_bytes(self) IN
  IF b = NoBytes THEN Panic
  ELSE IF \A i \in DOMAIN b : b[i] < 128 THEN Ok(b) ELSE Utf8Error

\* as_mut_str: str::from_utf8_mut(self.as_bytes_mut()); Ok carries the bytes
\* the &mut str covers
InlineStr_as_mut_str(self) ==
  LET b == InlineStr_as_bytes(self) IN
  IF b = NoBytes THEN Panic
  ELSE IF from_utf8_ok(b) THEN Ok(b) ELSE Utf8Error

\* the bytes written through a &mut str covering buf[..len]
InlineStr_write_str(self, b) ==
  [self EXCEPT !.buf = [i \in DOMAIN self.buf |->
                          IF i <= Len(b) THEN b[i] ELSE self.buf[i]]]

\* impl<T: ToString> PartialEq<T> for InlineStr, for T = char:
\* self.deref() == other.to_string()
InlineStr_eq_char(self, c) == InlineStr_as_str(self) = encode_utf8(c)

\* as_bytes_mut()[i] = b, for i < len
InlineStr_write_byte(self, i, b) == [self EXCEPT !.buf[i + 1] = b]

\* impl PartialEq<InlineStr> for char
char_eq_InlineStr(self, rhs) ==
  LET other_str == InlineStr_as_str(rhs)
      first     == first_char(other_str)
  IN
  IF IsSome(first)
  THEN first.v = self /\ Len(other_str) = len_utf8(self)
  ELSE FALSE

\* impl PartialOrd<InlineStr> for char
char_partial_cmp_InlineStr(self, rhs) ==
  LET that  == InlineStr_as_str(rhs)
      first == first_char(that)
  IN
  IF IsSome(first) THEN Some(char_cmp(self, first.v)) ELSE Some("Greater")

\* impl PartialEq<str> for InlineStr
InlineStr_eq_str(self, rhs) == InlineStr_as_str(self) = rhs

\* impl PartialOrd<str> for InlineStr
InlineStr_partial_cmp_str(self, rhs) ==
  Some(str_cmp(InlineStr_as_str(self), rhs))

\* impl PartialEq<InlineStr> for str (and for &str, String, Cow<str>)
str_eq_InlineStr(self, rhs) == self = InlineStr_as_str(rhs)

\* impl PartialOrd<InlineStr> for str (and for String, Cow<str>)
str_partial_cmp_InlineStr(self, rhs) ==
  Some(str_cmp(self, InlineStr_as_str(rhs)))

\* impl Ord for InlineStr
InlineStr_cmp(self, rhs) ==
  str_cmp(InlineStr_as_str(self), InlineStr_as_str(rhs))

\* impl<T: ToString> PartialEq<T> for InlineStr with T = InlineStr:
\* self.deref() == other.to_string(), and Display writes other.as_str()
InlineStr_eq(self, rhs) == InlineStr_as_str(self) = InlineStr_as_str(rhs)

\* a Hash that feeds every field to the hasher, as a derived one would
InlineStr_hash_derived(self) == self.buf \o <<self.len>>

\* impl Hash for InlineStr: self.deref().hash(state); the value is modelled
\* by what a str writes to the Hasher, its bytes and then 0xff
InlineStr_hash(self) ==
  LET that == InlineStr_as_str(self) IN
  IF that = NoBytes THEN NoBytes ELSE that \o <<255>>

-----------------------------------------------------------------------------
(* Inputs of the string state machines                                     *)

\* 'a', U+00E9, U+20AC, U+1F600: one character of each encoded length
Chars == {97, 233, 8364, 128512}

\* the first and the last char of each UTF-8 length, and the two chars next
\* to the surrogate gap
EdgeChars == {0, 127, 128, 2047, 2048, 55295, 57344, 65535, 65536, 1114111}

\* the byte values a caller writes through as_bytes_mut: 'A', a lone
\* continuation byte, and a byte that occurs in no UTF-8 text
WriteBytes == {65, 128, 255}

RECURSIVE StrOf(_)
\* the UTF-8 bytes of a sequence of characters
StrOf(cs) == IF cs = <<>> THEN <<>> ELSE encode_utf8(Head(cs)) \o StrOf(Tail(cs))

Tails == UNION {[1 .. k -> Chars] : k \in 0 .. MaxTail}

Pad(k) == [i \in 1 .. k |-> 97]

\* valid UTF-8 strings: a run of 'a' followed by a short tail
Inputs ==
  {Pad(k) \o StrOf(t) : k \in 0 .. MAX_INLINE_STR_LEN + 1, t \in Tails}
  \cup {encode_utf8(c) : c \in EdgeChars}

\* the strings a second value is built from: the same text, a longer one
\* with the same prefix, one of the same length, one differing at once
Others(s) == {s, s \o <<97>>, Pad(Len(s)), <<98>> \o s}

-----------------------------------------------------------------------------
(* InlineStr state machine                                                 *)

StrIdle ==
  /\ word = 8
  /\ istr = None
  /\ sop = "none"
  /\ sinput = <<>>
  /\ sres = "Value"
  /\ scmp = None
  /\ smut = None

\* the caller holds a string and has not called anything yet
StrInit ==
  /\ word \in {4, 8}
  /\ sinput \in Inputs
  /\ istr = None
  /\ sop = "none"
  /\ sres = "Value"
  /\ scmp = None
  /\ smut = None

\* a constructor call with outcome r: Ok(v), Err(e), Value(v) or Panic
Construct(op, r) ==
  /\ sop = "none"
  /\ sop' = op
  /\ sres' = r.tag
  /\ istr' = IF r.tag \in {"Ok", "Value"} THEN Some(r.v) ELSE None
  /\ UNCHANGED <<word, sinput, scmp, smut>>
  /\ UNCHANGED notStr

TryFrom == Construct("try_from", InlineStr_try_from(sinput))

FromStr == Construct("from_str", InlineStr_from_str(sinput))

FromString == Construct("from_string", Value(InlineStr_from_string(sinput)))

FromCow == Construct("from_cow", Value(InlineStr_from_cow(sinput)))

FromRef == Construct("from_ref", InlineStr_from_ref(sinput))

\* From<char>, when the caller's string is the single character c
FromChar ==
  \E c \in Chars \cup EdgeChars :
    /\ sinput = encode_utf8(c)
    /\ Construct("from_char", Value(InlineStr_from_char(c)))

Default == Construct("default", Value(InlineStr_default))

\* InlineStr::new(buf, len): buf holds the bytes of the string, len is any u8
New ==
  \E len \in {0, 1, MAX_INLINE_STR_LEN, MAX_INLINE_STR_LEN + 1, 255} :
    Construct("new",
              Value(InlineStr_new(
                      CopyIntoBuf(sinput,
                                  Min(Len(sinput), MAX_INLINE_STR_LEN)),
                      len)))

\* a write through as_bytes_mut() to the first or the last byte
WriteBytesMut ==
  /\ IsSome(istr)
  /\ sop \notin {"none", "as_bytes_mut", "as_mut_str"}
  /\ InlineStr_as_bytes(istr.v) # NoBytes
  /\ istr.v.len > 0
  /\ \E i \in {0, istr.v.len - 1}, b \in WriteBytes :
       istr' = Some(InlineStr_write_byte(istr.v, i, b))
  /\ sop' = "as_bytes_mut"
  /\ UNCHANGED <<word, sinput, sres, scmp, smut>>
  /\ UNCHANGED notStr

\* the constructors that take a whole str or char: TryFrom<&str>, FromStr
\* and From<&T> (both through try_from), and From<char>
CheckedCtors == {"try_from", "from_str", "from_ref", "from_char"}

\* if let Ok(m) = s.as_mut_str() { m.make_ascii_uppercase() }, on an
\* InlineStr a constructor returned
AsMutStrUpper ==
  /\ IsSome(istr)
  /\ sop \notin {"none", "as_bytes_mut", "cmp", "as_mut_str"}
  /\ LET r == InlineStr_as_mut_str(istr.v) IN
       /\ smut' = Some([checked |-> sop \in CheckedCtors,
                        r       |-> r.tag,
                        before  |-> InlineStr_as_bytes(istr.v),
                        len     |-> InlineStr_len(istr.v)])
       /\ istr' = IF r.tag = "Ok"
                  THEN Some(InlineStr_write_str(istr.v,
                                                make_ascii_uppercase(r.v)))
                  ELSE istr
  /\ sop' = "as_mut_str"
  /\ UNCHANGED <<word, sinput, sres, scmp>>
  /\ UNCHANGED notStr

\* a comparison is made on an InlineStr a constructor returned
CanCompare ==
  /\ IsSome(istr)
  /\ sop \notin {"none", "as_bytes_mut", "cmp"}
  /\ InlineStr_as_str(istr.v) # NoBytes

Compared(r) ==
  /\ scmp' = Some(r)
  /\ sop' = "cmp"
  /\ UNCHANGED <<word, istr, sinput, sres, smut>>
  /\ UNCHANGED notStr

\* c == s, c.partial_cmp(&s) and s == c for a char c
CmpChar ==
  /\ CanCompare
  /\ \E c \in Chars :
       Compared([lhs |-> "char",
                 a   |-> encode_utf8(c),
                 b   |-> InlineStr_as_str(istr.v),
                 eq  |-> char_eq_InlineStr(c, istr.v),
                 ord |-> char_partial_cmp_InlineStr(c, istr.v),
                 rev |-> InlineStr_eq_char(istr.v, c)])

\* s == t and s.partial_cmp(t) for a str t
CmpStr ==
  /\ CanCompare
  /\ \E t \in Others(InlineStr_as_str(istr.v)) :
       Compared([lhs |-> "InlineStr",
                 a   |-> InlineStr_as_str(istr.v),
                 b   |-> t,
                 eq  |-> InlineStr_eq_str(istr.v, t),
                 ord |-> InlineStr_partial_cmp_str(istr.v, t)])

\* t == s and t.partial_cmp(&s) for a str, String or Cow<str> t
StrCmp ==
  /\ CanCompare
  /\ \E t \in Others(InlineStr_as_str(istr.v)) :
       Compared([lhs |-> "str",
                 a   |-> t,
                 b   |-> InlineStr_as_str(istr.v),
                 eq  |-> str_eq_InlineStr(t, istr.v),
                 ord |-> str_partial_cmp_InlineStr(t, istr.v)])

\* s.cmp(&o) for an InlineStr o parsed from a related string
CmpInlineStr ==
  /\ CanCompare
  /\ \E t \in Others(InlineStr_as_str(istr.v)) :
       /\ InlineStr_try_from(t).tag = "Ok"
       /\ LET o == InlineStr_try_from(t).v IN
            Compared([lhs |-> "Ord",
                      a   |-> InlineStr_as_str(istr.v),
                      b   |-> t,
                      eq  |-> InlineStr_cmp(istr.v, o) = "Equal",
                      ord |-> Some(InlineStr_cmp(istr.v, o))])

\* the bytes a second buffer holds past len
TailBytes == {0, 255}

\* s == o, s.cmp(&o), the two hashes, as_str() and as_bytes() for
\* o = InlineStr::new(buf, s.len()) whose buf agrees with that of s below
\* len and differs from it somewhere past len
CmpTwin ==
  /\ CanCompare
  /\ \E d \in TailBytes :
       LET o == InlineStr_new([i \in DOMAIN istr.v.buf |->
                                IF i <= istr.v.len THEN istr.v.buf[i] ELSE d],
                              istr.v.len)
       IN
       /\ o.buf # istr.v.buf
       /\ Compared([lhs   |-> "twin",
                    a     |-> InlineStr_as_str(istr.v),
                    b     |-> InlineStr_as_str(o),
                    eq    |-> InlineStr_eq(istr.v, o),
                    ord   |-> Some(InlineStr_cmp(istr.v, o)),
                    hash  |-> InlineStr_hash(istr.v) = InlineStr_hash(o),
                    bytes |-> InlineStr_as_bytes(istr.v)
                                = InlineStr_as_bytes(o)])

StrNext ==
  \/ TryFrom \/ FromStr \/ FromString \/ FromCow \/ FromRef \/ FromChar
  \/ Default \/ New \/ WriteBytesMut \/ AsMutStrUpper
  \/ CmpChar \/ CmpStr \/ StrCmp \/ CmpInlineStr \/ CmpTwin

VecIdle == VecInitWith(0, CompactVec_new(0), "new", 0, None)

-----------------------------------------------------------------------------
(* CowStr                                                                  *)

Owned(ptr) == [tag |-> "Owned", ptr |-> ptr]

Borrowed(ptr) == [tag |-> "Borrowed", ptr |-> ptr]

Inlined(s) == [tag |-> "Inlined", s |-> s]

\* a heap allocation, or borrowed data, holding a string
Block(bytes) == [live |-> TRUE, bytes |-> bytes]

\* the allocation has been returned to the allocator
Freed(bytes) == [live |-> FALSE, bytes |-> bytes]

\* a &mut str / &mut [u8]: into the block at an address, into the InlineStr
\* held in the CowStr itself, or the empty slice of an unallocated String
RefMem(a) == [kind |-> "mem", addr |-> a]

RefInline == [kind |-> "inline", addr |-> 0]

RefEmpty == [kind |-> "empty", addr |-> 0]

CowStr_as_str(self, m) ==
  IF self.tag = "Inlined" THEN InlineStr_as_str(self.s)
  ELSE m[self.ptr].bytes

CowStr_as_bytes(self, m) ==
  IF self.tag = "Inlined" THEN InlineStr_as_bytes(self.s)
  ELSE m[self.ptr].bytes

CowStr_len(self, m) == Len(CowStr_as_bytes(self, m))

\* b.to_owned().as_bytes_mut() under transmute_copy: the String is a
\* temporary, allocated (unless empty) and dropped before the call returns.
\* Returns [mem, ref].
ToOwnedTemporary(b, m) ==
  IF Len(m[b].bytes) = 0
  THEN [mem |-> m, ref |-> RefEmpty]
  ELSE [mem |-> Append(m, Freed(m[b].bytes)), ref |-> RefMem(Len(m) + 1)]

\* returns [mem, ref]; self is not assigned
CowStr_as_mut_str(self, m) ==
  IF self.tag = "Owned" THEN [mem |-> m, ref |-> RefMem(self.ptr)]
  ELSE IF self.tag = "Borrowed" THEN ToOwnedTemporary(self.ptr, m)
  ELSE [mem |-> m, ref |-> RefInline]

\* returns [mem, ref]; self is not assigned
CowStr_as_bytes_mut(self, m) ==
  IF self.tag = "Owned" THEN [mem |-> m, ref |-> RefMem(self.ptr)]
  ELSE IF self.tag = "Borrowed" THEN ToOwnedTemporary(self.ptr, m)
  ELSE [mem |-> m, ref |-> RefInline]

CowStr_deref_mut(self, m) == CowStr_as_mut_str(self, m)

CowStr_as_mut(self, m) == CowStr_deref_mut(self, m)

CowStr_borrow_mut(self, m) == CowStr_deref_mut(self, m)


\* clone that refuses to inline a string of exactly MAX_INLINE_STR_LEN bytes
CowStr_clone_strict(self, m) ==
  IF self.tag = "Owned"
  THEN LET r == InlineStr_try_from_strict(m[self.ptr].bytes) IN
       IF r.tag = "Ok" THEN [mem |-> m, cow |-> Inlined(r.v)]
       ELSE [mem |-> Append(m, Block(m[self.ptr].bytes)),
             cow |-> Owned(Len(m) + 1)]
  ELSE IF self.tag = "Borrowed" THEN [mem |-> m, cow |-> Borrowed(self.ptr)]
  ELSE [mem |-> m, cow |-> Inlined(self.s)]

\* impl Clone for CowStr; returns [mem, cow]: a Box<str> clone allocates
CowStr_clone(self, m) ==
  IF self.tag = "Owned"
  THEN LET r == InlineStr_try_from(m[self.ptr].bytes) IN
       IF r.tag = "Ok" THEN [mem |-> m, cow |-> Inlined(r.v)]
       ELSE [mem |-> Append(m, Block(m[self.ptr].bytes)),
             cow |-> Owned(Len(m) + 1)]
  ELSE IF self.tag = "Borrowed" THEN [mem |-> m, cow |-> Borrowed(self.ptr)]
  ELSE [mem |-> m, cow |-> Inlined(self.s)]

\* an equality that also requires the two variants to be the same
CowStr_eq_by_variant(self, that, m) ==
  self.tag = that.tag /\ CowStr_as_str(self, m) = CowStr_as_str(that, m)

\* impl PartialEq for CowStr
CowStr_eq(self, that, m) == CowStr_as_str(self, m) = CowStr_as_str(that, m)

\* impl PartialOrd<CowStr> for CowStr
CowStr_partial_cmp(self, that, m) ==
  Some(str_cmp(CowStr_as_str(self, m), CowStr_as_str(that, m)))

\* impl Hash for CowStr
CowStr_hash(self, m) == str_hash(CowStr_as_str(self, m))

\* a From<String> that inlines the strings that fit
CowStr_from_string_inlining(s, m) ==
  LET r == InlineStr_try_from(s) IN
    IF r.tag = "Ok" THEN [mem |-> m, cow |-> Inlined(r.v)]
    ELSE [mem |-> Append(m, Block(s)), cow |-> Owned(Len(m) + 1)]

\* CowStr::from(String)
CowStr_from_string(s, m) ==
  [mem |-> Append(m, Block(s)), cow |-> Owned(Len(m) + 1)]

\* CowStr::from(&str): the borrowed data lives outside the CowStr
CowStr_from_str(s, m) ==
  [mem |-> Append(m, Block(s)), cow |-> Borrowed(Len(m) + 1)]

\* CowStr::from(char)
CowStr_from_char(c, m) == [mem |-> m, cow |-> Inlined(InlineStr_from_char(c))]

\* alloc::borrow::Cow<'_, B>: Borrowed(&B) or Owned(<B as ToOwned>::Owned)
Cow_Borrowed(b) == [tag |-> "Borrowed", b |-> b]

Cow_Owned(b) == [tag |-> "Owned", b |-> b]

\* CowStr::from(Cow<str>)
CowStr_from_cow(s, m) ==
  IF s.tag = "Borrowed" THEN [mem |-> Append(m, Block(s.b)),
                              cow |-> Borrowed(Len(m) + 1)]
  ELSE CowStr_from_string(s.b, m)

\* CowStr::from(Cow<char>): InlineStr::from(*s.deref())
CowStr_from_cow_char(s, m) ==
  [mem |-> m, cow |-> Inlined(InlineStr_from_char(s.b))]

\* the next multiple of the alignment a at or after x
align_up(x, a) == ((x + a - 1) \div a) * a

\* size_of::<InlineStr>(): buf: [u8; MAX_INLINE_STR_LEN] and len: u8, align 1
size_of_InlineStr == MAX_INLINE_STR_LEN + 1

\* size_of::<Box<str>>() and size_of::<&str>(): pointer and length, align word
size_of_str_ptr == 2 * word

\* size_of::<CowStr>(): a one-byte discriminant, then each variant's payload
\* at its alignment, the whole rounded up to the alignment of the enum
size_of_CowStr ==
  align_up(Max(align_up(1, 1) + size_of_InlineStr,
               align_up(1, word) + size_of_str_ptr),
           word)

\* into_owned(self): the bytes of the String returned
CowStr_into_owned(self, m) ==
  IF self.tag = "Owned" THEN m[self.ptr].bytes
  ELSE IF self.tag = "Borrowed" THEN m[self.ptr].bytes
  ELSE InlineStr_as_str(self.s)

\* into_string(self): the bytes of the String returned
CowStr_into_string(self, m) ==
  IF self.tag = "Owned" THEN m[self.ptr].bytes
  ELSE IF self.tag = "Borrowed" THEN m[self.ptr].bytes
  ELSE InlineStr_as_str(self.s)

\* impl From<CowStr> for String
String_from_CowStr(s, m) == CowStr_into_string(s, m)

\* a conversion to Cow<str> that copies whatever it is given
Cow_from_CowStr_copying(s, m) == Cow_Owned(CowStr_as_str(s, m))

\* impl From<CowStr> for Cow<str>
Cow_from_CowStr(s, m) ==
  IF s.tag = "Owned" THEN Cow_Owned(m[s.ptr].bytes)
  ELSE IF s.tag = "Inlined" THEN Cow_Owned(InlineStr_as_str(s.s))
  ELSE Cow_Borrowed(m[s.ptr].bytes)

\* impl Serialize for CowStr: serialize_str(self.as_ref())
CowStr_serialize(self, m) == CowStr_as_str(self, m)

\* CowStrVisitor::visit_borrowed_str: the str lives in the input
CowStrVisitor_visit_borrowed_str(v, m) ==
  [mem |-> Append(m, Block(v)), cow |-> Borrowed(Len(m) + 1)]

\* CowStrVisitor::visit_str: the str is gone when the call returns
CowStrVisitor_visit_str(v, m) ==
  LET r == InlineStr_try_from(v) IN
    IF r.tag = "Ok" THEN [mem |-> m, cow |-> Inlined(r.v)]
    ELSE [mem |-> Append(m, Block(v)), cow |-> Owned(Len(m) + 1)]

\* CowStrVisitor::visit_string: the deserializer hands over a String
CowStrVisitor_visit_string(v, m) ==
  [mem |-> Append(m, Block(v)), cow |-> Owned(Len(m) + 1)]

-----------------------------------------------------------------------------
(* CowStr state machine                                                    *)

CowIdle ==
  /\ cow = Borrowed(1)
  /\ ctag = "Borrowed"
  /\ mem = <<Block(<<>>)>>
  /\ mref = None
  /\ cop = "none"
  /\ crashed = FALSE
  /\ other = None
  /\ oinput = <<>>
  /\ ccmp = None
  /\ cout = None

\* CowStr::from(String), CowStr::from(&str), or
\* CowStr::Inlined(s.parse()?) when the string fits
CowInit ==
  /\ word \in {4, 8}
  /\ sinput \in Inputs
  /\ istr = None
  /\ sop = "none"
  /\ sres = "Value"
  /\ scmp = None
  /\ smut = None
  /\ \/ cow = Owned(1) /\ mem = <<Block(sinput)>>
     \/ cow = Borrowed(1) /\ mem = <<Block(sinput)>>
     \/ /\ InlineStr_try_from(sinput).tag = "Ok"
        /\ cow = Inlined(InlineStr_try_from(sinput).v)
        /\ mem = <<>>
  /\ ctag = cow.tag
  /\ mref = None
  /\ cop = "none"
  /\ crashed = FALSE
  /\ other = None
  /\ oinput = <<>>
  /\ ccmp = None
  /\ cout = None

\* a call that hands out a mutable slice: r = [mem, ref]
HandOut(op, r) ==
  /\ cop = "none"
  /\ cop' = op
  /\ mem' = r.mem
  /\ mref' = Some(r.ref)
  /\ UNCHANGED <<cow, ctag, crashed, other, oinput, ccmp, cout>>
  /\ UNCHANGED notCow

AsMutStr == HandOut("as_mut_str", CowStr_as_mut_str(cow, mem))

AsBytesMut == HandOut("as_bytes_mut", CowStr_as_bytes_mut(cow, mem))

DerefMut == HandOut("deref_mut", CowStr_deref_mut(cow, mem))

AsMut == HandOut("as_mut", CowStr_as_mut(cow, mem))

BorrowMut == HandOut("borrow_mut", CowStr_borrow_mut(cow, mem))

\* the caller upper-cases the slice it was handed, then releases it.  A
\* write into freed storage is undefined: it lands in the freed block and
\* goes unnoticed, or the process faults.
WriteThrough ==
  /\ IsSome(mref)
  /\ ~crashed
  /\ LET r == mref.v IN
       \/ /\ r.kind = "inline"
          /\ cow' = [cow EXCEPT !.s.buf =
                       [i \in DOMAIN cow.s.buf |->
                          IF i <= cow.s.len
                          THEN make_ascii_uppercase(cow.s.buf)[i]
                          ELSE cow.s.buf[i]]]
          /\ UNCHANGED <<mem, crashed>>
       \/ /\ r.kind = "empty"
          /\ UNCHANGED <<cow, mem, crashed>>
       \/ /\ r.kind = "mem"
          /\ mem' = [mem EXCEPT ![r.addr].bytes = make_ascii_uppercase(@)]
          /\ UNCHANGED <<cow, crashed>>
       \/ /\ r.kind = "mem"
          /\ ~mem[r.addr].live
          /\ crashed' = TRUE
          /\ UNCHANGED <<cow, mem>>
  /\ mref' = None
  /\ cop' = "write"
  /\ UNCHANGED <<ctag, other, oinput, ccmp, cout>>
  /\ UNCHANGED notCow

\* let other = cow.clone()
Clone ==
  /\ cop = "none"
  /\ LET r == CowStr_clone(cow, mem) IN
       /\ mem' = r.mem
       /\ other' = Some(r.cow)
  /\ oinput' = sinput
  /\ cop' = "clone"
  /\ UNCHANGED <<cow, ctag, mref, crashed, ccmp, cout>>
  /\ UNCHANGED notCow

\* a second CowStr of any variant is built from a string related to sinput
MakeOther ==
  /\ cop = "none"
  /\ \E t \in Others(sinput) :
       /\ oinput' = t
       /\ \/ LET r == CowStr_from_string(t, mem) IN
               mem' = r.mem /\ other' = Some(r.cow)
          \/ LET r == CowStr_from_str(t, mem) IN
               mem' = r.mem /\ other' = Some(r.cow)
          \/ /\ InlineStr_try_from(t).tag = "Ok"
             /\ other' = Some(Inlined(InlineStr_try_from(t).v))
             /\ mem' = mem
  /\ cop' = "from"
  /\ UNCHANGED <<cow, ctag, mref, crashed, ccmp, cout>>
  /\ UNCHANGED notCow

\* let other: CowStr = source.into(), r = [mem, cow], t the source's bytes
Convert(op, t, r) ==
  /\ cop = "none"
  /\ oinput' = t
  /\ mem' = r.mem
  /\ other' = Some(r.cow)
  /\ cop' = op
  /\ UNCHANGED <<cow, ctag, mref, crashed, ccmp, cout>>
  /\ UNCHANGED notCow

IntoFromStr ==
  \E t \in Others(sinput) : Convert("from_str", t, CowStr_from_str(t, mem))

IntoFromString ==
  \E t \in Others(sinput) :
    Convert("from_string", t, CowStr_from_string(t, mem))

IntoFromChar ==
  \E c \in Chars : Convert("from_char", encode_utf8(c), CowStr_from_char(c, mem))

IntoFromCow ==
  \E t \in Others(sinput) :
    \/ Convert("from_cow_borrowed", t, CowStr_from_cow(Cow_Borrowed(t), mem))
    \/ Convert("from_cow_owned", t, CowStr_from_cow(Cow_Owned(t), mem))

IntoFromCowChar ==
  \E c \in Chars, k \in {"Borrowed", "Owned"} :
    Convert("from_cow_char", encode_utf8(c),
            CowStr_from_cow_char([tag |-> k, b |-> c], mem))

\* cow is serialized and a CowStr deserialized from the string written; the
\* deserializer delivers it as a borrowed str, a transient str or a String
Deserialize ==
  LET v == CowStr_serialize(cow, mem) IN
    \/ Convert("visit_borrowed_str", v, CowStrVisitor_visit_borrowed_str(v, mem))
    \/ Convert("visit_str", v, CowStrVisitor_visit_str(v, mem))
    \/ Convert("visit_string", v, CowStrVisitor_visit_string(v, mem))

\* cow is moved into a conversion that returns r
ConvertOut(op, r) ==
  /\ cop = "none"
  /\ cout' = Some([op |-> op, from |-> cow.tag, src |-> sinput, r |-> r])
  /\ cop' = op
  /\ UNCHANGED <<cow, ctag, mem, mref, crashed, other, oinput, ccmp>>
  /\ UNCHANGED notCow

\* let c: Cow<str> = cow.into()
IntoCow == ConvertOut("into_cow", Cow_from_CowStr(cow, mem))

IntoOwned == ConvertOut("into_owned", CowStr_into_owned(cow, mem))

IntoString == ConvertOut("into_string", CowStr_into_string(cow, mem))

\* let s: String = cow.into()
IntoStdString == ConvertOut("string_from", String_from_CowStr(cow, mem))

\* let back: Cow<str> = CowStr::from(c).into(), for a Cow<str> c
CowRoundTrip ==
  /\ cop = "none"
  /\ \E t \in Others(sinput), k \in {"Borrowed", "Owned"} :
       LET c == CowStr_from_cow([tag |-> k, b |-> t], mem) IN
         cout' = Some([op |-> "round_trip", from |-> k, src |-> t,
                       r |-> Cow_from_CowStr(c.cow, c.mem)])
  /\ cop' = "round_trip"
  /\ UNCHANGED <<cow, ctag, mem, mref, crashed, other, oinput, ccmp>>
  /\ UNCHANGED notCow

\* cow == other, cow.partial_cmp(&other), and the two hashes
Compare ==
  /\ cop \in {"clone", "from"}
  /\ ccmp' = Some([eq    |-> CowStr_eq(cow, other.v, mem),
                   ord   |-> CowStr_partial_cmp(cow, other.v, mem),
                   hash  |-> CowStr_hash(cow, mem),
                   hash2 |-> CowStr_hash(other.v, mem)])
  /\ cop' = "cmp"
  /\ UNCHANGED <<cow, ctag, mem, mref, crashed, other, oinput, cout>>
  /\ UNCHANGED notCow

CowNext ==
  \/ AsMutStr \/ AsBytesMut \/ DerefMut \/ AsMut \/ BorrowMut \/ WriteThrough
  \/ Clone \/ MakeOther \/ Compare
  \/ IntoFromStr \/ IntoFromString \/ IntoFromChar \/ IntoFromCow
  \/ IntoFromCowChar
  \/ IntoCow \/ IntoOwned \/ IntoString \/ IntoStdString \/ CowRoundTrip
  \/ Deserialize

-----------------------------------------------------------------------------
(* SmallString<N>: [inner], a CompactVec<u8, N>                            *)

SmallString_new(n) == [inner |-> CompactVec_new(n)]

SmallString_len(self) == CompactVec_len(self.inner)

SmallString_is_inline(self) == CompactVec_is_inline(self.inner)

SmallString_capacity(self, n) == CompactVec_capacity(self.inner, n)

\* from_utf8_unchecked(self.inner.as_slice()): the bytes, taken as a str
SmallString_as_str(self) == CompactVec_as_slice(self.inner)

SmallString_push_str(self, n, s) ==
  [inner |-> CompactVec_extend(self.inner, n, s)]

\* push that stores `c as u8` in place of the encoding of c
SmallString_push_as_u8(self, n, c) ==
  SmallString_push_str(self, n, <<as_u8(c)>>)

SmallString_push(self, n, c) ==
  SmallString_push_str(self, n, encode_utf8(c))

\* from_str that reserves room for one byte more than the string has
SmallString_from_str_padded(n, s) ==
  [inner |-> CompactVec_extend(CompactVec_with_capacity(n, Len(s) + 1), n, s)]

SmallString_from_str(n, s) ==
  [inner |-> CompactVec_extend(CompactVec_with_capacity(n, Len(s)), n, s)]

\* impl From<String> for SmallString
SmallString_from_string(n, s) == SmallString_from_str(n, s)

\* impl From<&str> for SmallString
SmallString_from_ref(n, s) == SmallString_from_str(n, s)

SmallString_clone(self, n) == [inner |-> CompactVec_clone(self.inner, n)]

\* an into_string that reads the inline array only
SmallString_into_string_inline(self) ==
  [i \in 1 .. self.inner.len |-> self.inner.inline[i]]

\* into_string: String::from_utf8_unchecked(self.inner.into_vec()), as the
\* bytes of the String
SmallString_into_string(self) == CompactVec_into_vec(self.inner).vec.buf

\* impl From<SmallString<N>> for String
String_from_SmallString(s) == SmallString_into_string(s)

-----------------------------------------------------------------------------
(* SmallString state machine                                               *)

\* the strings a caller passes: up to MaxTail characters, or a run of 'a'
SmallInputs ==
  {StrOf(t) : t \in Tails} \cup {Pad(k) : k \in 0 .. MaxSmallN + 1}

SmallIdle ==
  /\ sN = 0
  /\ ss = None
  /\ ssrc = <<>>
  /\ ssop = "none"
  /\ sout = None

SmallInit ==
  /\ sN \in 0 .. MaxSmallN
  /\ ss = None
  /\ ssrc = <<>>
  /\ ssop = "none"
  /\ sout = None

\* a constructor call returning r, given the string s
SSConstruct(op, r, s) ==
  /\ ss = None
  /\ sout = None
  /\ ss' = Some(r)
  /\ ssrc' = s
  /\ ssop' = op
  /\ UNCHANGED <<sN, sout>>
  /\ UNCHANGED notSmall

SSNew == SSConstruct("new", SmallString_new(sN), <<>>)

SSFromStr ==
  \E s \in SmallInputs : SSConstruct("from_str", SmallString_from_str(sN, s), s)

SSFromString ==
  \E s \in SmallInputs :
    SSConstruct("from_string", SmallString_from_string(sN, s), s)

SSFromRef ==
  \E s \in SmallInputs : SSConstruct("from_ref", SmallString_from_ref(sN, s), s)

SSPush ==
  /\ IsSome(ss)
  /\ \E c \in Chars :
       /\ Len(ssrc) + len_utf8(c) <= MaxBytes
       /\ ss' = Some(SmallString_push(ss.v, sN, c))
       /\ ssrc' = ssrc \o encode_utf8(c)
  /\ ssop' = "push"
  /\ UNCHANGED <<sN, sout>>
  /\ UNCHANGED notSmall

SSPushStr ==
  /\ IsSome(ss)
  /\ \E s \in SmallInputs :
       /\ Len(ssrc) + Len(s) <= MaxBytes
       /\ ss' = Some(SmallString_push_str(ss.v, sN, s))
       /\ ssrc' = ssrc \o s
  /\ ssop' = "push_str"
  /\ UNCHANGED <<sN, sout>>
  /\ UNCHANGED notSmall

\* ss = ss.clone(): the program goes on with the clone
SSClone ==
  /\ IsSome(ss)
  /\ ss' = Some(SmallString_clone(ss.v, sN))
  /\ ssop' = "clone"
  /\ UNCHANGED <<sN, ssrc, sout>>
  /\ UNCHANGED notSmall

\* a call that consumes ss and returns the String r
SSConsume(op, r) ==
  /\ IsSome(ss)
  /\ sout' = Some(r)
  /\ ss' = None
  /\ ssop' = op
  /\ UNCHANGED <<sN, ssrc>>
  /\ UNCHANGED notSmall

SSIntoString == SSConsume("into_string", SmallString_into_string(ss.v))

\* let s: String = ss.into()
SSIntoStd == SSConsume("string_from", String_from_SmallString(ss.v))

SmallNext ==
  \/ SSNew \/ SSFromStr \/ SSFromString \/ SSFromRef
  \/ SSPush \/ SSPushStr \/ SSClone
  \/ SSIntoString \/ SSIntoStd

-----------------------------------------------------------------------------
(* Specifications                                                          *)

Init == VecInit /\ StrIdle /\ CowIdle /\ SmallIdle

Next == VecNext

Spec == Init /\ [][Next]_vars

\* a CompactVec that is built, grown, shrunk and indexed
IndexNext == Push \/ Pop \/ Clear \/ IndexAt \/ IndexMutAt

IndexSpec == Init /\ [][IndexNext]_vars

\* the original is still what it was when the clone was taken
OriginalUntouched == IsSome(cv2) => cv = src2.v

\* a CompactVec is built and changed at will and cloned once; then the
\* original and the clone are each pushed to, popped, cleared or written
CloneNext ==
  \/ OriginalUntouched /\ Push
  \/ OriginalUntouched /\ Pop
  \/ OriginalUntouched /\ Clear
  \/ OriginalUntouched /\ IndexMutAt
  \/ CloneVec
  \/ ClonePush
  \/ ClonePop
  \/ CloneClear
  \/ CloneWrite

CloneSpec == Init /\ [][CloneNext]_vars

\* a CompactVec that is built, grown, shrunk and compared with another
CompareNext == Push \/ Pop \/ Extend \/ CompareWith \/ SerdeRoundTrip

CompareSpec == Init /\ [][CompareNext]_vars

InlineStrInit == VecIdle /\ StrInit /\ CowIdle /\ SmallIdle

InlineStrNext == StrNext

InlineStrSpec == InlineStrInit /\ [][InlineStrNext]_vars

CowStrInit == VecIdle /\ CowInit /\ SmallIdle

CowStrNext == CowNext

CowStrSpec == CowStrInit /\ [][CowStrNext]_vars

SmallStringInit == VecIdle /\ StrIdle /\ CowIdle /\ SmallInit

SmallStringNext == SmallNext

SmallStringSpec == SmallStringInit /\ [][SmallStringNext]_vars

-----------------------------------------------------------------------------
(* CompactVec properties                                                   *)

\* C1: from any constructor and under any sequence of operations, as_slice()
\* and len() equal the contents and length of a plain Vec put through the
\* same sequence, and every pop() returns what the Vec's pop returns.
C1_RefinesVec ==
  phase = "live" =>
    /\ CompactVec_as_slice(cv) = vec
    /\ CompactVec_len(cv) = Len(vec)
    /\ ret = vecRet

\* a pop that returned a value and demoted a full heap vector to inline
C1_Witness ==
  /\ lastOp = "pop" /\ IsSome(ret)
  /\ N > 0 /\ CompactVec_is_inline(cv) /\ CompactVec_len(cv) = N

\* C2: a CompactVec built by new() or from_iter and mutated by push, pop,
\* extend and clear is inline exactly when len() <= N, also for N = 0.
C2_InlineIffFits ==
  (phase = "live" /\ ctor \in {"new", "from_iter"}) =>
    (CompactVec_is_inline(cv) <=> CompactVec_len(cv) <= N)

\* with N = 0 the first push of a new() vector has spilled
C2_Witness ==
  /\ N = 0 /\ ctor = "new" /\ lastOp = "push"
  /\ CompactVec_len(cv) = 1 /\ ~CompactVec_is_inline(cv)

\* C3: after any pop() that returns a value the container is inline iff the
\* resulting len() <= N, and the remaining elements keep their order.
C3_PopDemotes ==
  (lastOp = "pop" /\ IsSome(ret)) =>
    /\ CompactVec_is_inline(cv) <=> CompactVec_len(cv) <= N
    /\ CompactVec_as_slice(cv) = vec

\* a with_capacity vector popped from N + 1 elements down to N is inline
C3_Witness ==
  /\ ctor = "with_capacity" /\ lastOp = "pop" /\ IsSome(ret)
  /\ N > 0 /\ CompactVec_len(cv) = N /\ CompactVec_is_inline(cv)
  /\ cv.inline = vec

\* C4: into_vec() / into_iter() move every element out: the consumed
\* CompactVec's destructor destroys none of the elements of the returned Vec.
C4_IntoVecMovesOut ==
  phase = "consumed" =>
    \A i \in DOMAIN outVec.v.buf : drops[outVec.v.buf[i]] = 0

\* C5: over push, pop, extend and clear followed by dropping the container,
\* every element is destroyed exactly once: popped elements belong to the
\* caller and are never destroyed by the container, cleared elements are
\* destroyed at clear time, the destructor destroys exactly the live ones.
C5_DroppedExactlyOnce ==
  phase \in {"live", "dropped"} =>
    /\ ~ub
    /\ \A e \in Elems : drops[e] <= 1
    /\ \A e \in caller : drops[e] = 0
    /\ phase = "live" =>
         \A e \in 1 .. nextId - 1 :
           drops[e] = IF e \in caller \cup Range(CompactVec_as_slice(cv))
                      THEN 0 ELSE 1
    /\ phase = "dropped" =>
         \A e \in 1 .. nextId - 1 : drops[e] = IF e \in caller THEN 0 ELSE 1

\* a spilled vector dropped after an element was popped and one was cleared
C5_Witness ==
  /\ phase = "dropped" /\ caller # {}
  /\ ~CompactVec_is_inline(cv) /\ CompactVec_len(cv) > 0
  /\ \E e \in 1 .. nextId - 1 :
       e \notin caller /\ e \notin Range(CompactVec_as_slice(cv))

\* C6: in every reachable state, however the vector was constructed,
\* len() <= N means the elements are stored inline and no heap is held.
C6_FitsImpliesInline ==
  phase = "live" =>
    (CompactVec_len(cv) <= N => CompactVec_is_inline(cv))


-----------------------------------------------------------------------------
(* InlineStr properties                                                    *)

\* C7: every InlineStr obtained through the safe API has
\* len <= MAX_INLINE_STR_LEN and valid UTF-8 in bytes [0, len), so
\* as_bytes() and as_str() never panic.
C7_InlineStrInvariant ==
  IsSome(istr) =>
    /\ InlineStr_len(istr.v) <= MAX_INLINE_STR_LEN
    /\ from_utf8_ok(InlineStr_as_bytes(istr.v))
    /\ InlineStr_as_str(istr.v) # NoBytes

\* C8: constructing an InlineStr from an owned String or a Cow<str> longer
\* than MAX_INLINE_STR_LEN fails with the length-exceeded error, and
\* construction never yields content that differs from the input string.
C8_OwnedTooLongFails ==
  sop \in {"from_string", "from_cow"} =>
    /\ Len(sinput) > MAX_INLINE_STR_LEN => sres = "Err"
    /\ IsSome(istr) => InlineStr_as_bytes(istr.v) = sinput

\* C9: try_from(&str) and parse() succeed iff the input's byte length is
\* <= MAX_INLINE_STR_LEN (22 on 64-bit, 10 on 32-bit); on success len()
\* is the input's byte length and as_str() is the input; on failure the
\* result is Err(StringTooLongError).
C9_TryFromBoundary ==
  sop \in {"try_from", "from_str"} =>
    /\ MAX_INLINE_STR_LEN = (IF word = 8 THEN 22 ELSE 10)
    /\ sres = "Ok" <=> Len(sinput) <= MAX_INLINE_STR_LEN
    /\ sres = "Ok" =>
         /\ IsSome(istr)
         /\ InlineStr_len(istr.v) = Len(sinput)
         /\ InlineStr_as_str(istr.v) = sinput
    /\ sres # "Ok" => (sres = "Err" /\ istr = None)

\* a 22-byte string ending in a multi-byte character is accepted on 64-bit
C9_Witness ==
  /\ sop = "try_from" /\ word = 8 /\ sres = "Ok"
  /\ Len(sinput) = 22 /\ sinput[22] >= 128
  /\ IsSome(istr) /\ InlineStr_len(istr.v) = 22

-----------------------------------------------------------------------------
(* CowStr properties                                                       *)

\* the storage a CowStr's content lives in
OwnStorage(self) ==
  IF self.tag = "Inlined" THEN RefInline ELSE RefMem(self.ptr)

\* C10: for every variant, the mutable slice returned by as_mut_str /
\* as_bytes_mut / deref_mut / as_mut / borrow_mut refers to live storage
\* holding the CowStr's own content (never to freed storage), a write
\* through it is visible in a subsequent as_str(), and the variant tag is
\* unchanged by the call.
C10_MutSliceIsOwnStorage ==
  /\ cow.tag = ctag
  /\ (IsSome(mref) /\ mref.v.kind = "mem") => mem[mref.v.addr].live
  /\ (IsSome(mref) /\ mref.v.kind # "empty") => mref.v = OwnStorage(cow)
  /\ cop = "write" => CowStr_as_str(cow, mem) = make_ascii_uppercase(sinput)

\* C11: CowStr::clone yields the same content; an Owned original clones to
\* Inlined when its byte length is <= MAX_INLINE_STR_LEN (the boundary
\* included) and to a separate Owned allocation when longer, a Borrowed
\* original to Borrowed of the same reference, an Inlined one to Inlined.
C11_CloneVariant ==
  cop = "clone" =>
    /\ IsSome(other)
    /\ CowStr_as_str(other.v, mem) = CowStr_as_str(cow, mem)
    /\ CowStr_as_str(other.v, mem) = sinput
    /\ (ctag = "Owned" /\ Len(sinput) <= MAX_INLINE_STR_LEN)
         => other.v.tag = "Inlined"
    /\ (ctag = "Owned" /\ Len(sinput) > MAX_INLINE_STR_LEN)
         => /\ other.v.tag = "Owned"
            /\ other.v.ptr # cow.ptr
            /\ mem[other.v.ptr].live
    /\ ctag = "Borrowed" => other.v = cow
    /\ ctag = "Inlined" => other.v = cow

\* an Owned string of exactly MAX_INLINE_STR_LEN bytes cloned to Inlined
C11_Witness ==
  /\ cop = "clone" /\ ctag = "Owned"
  /\ Len(sinput) = MAX_INLINE_STR_LEN
  /\ IsSome(other) /\ other.v.tag = "Inlined"

\* C12: for two CowStr values of any variants, as_str(), as_bytes() and
\* len() give the logical content whatever the variant, and ==, partial_cmp
\* and hash are those of the two strings: equal iff the contents are equal,
\* ordered as the contents, and equal values feed the hasher the same bytes.
C12_ContentBased ==
  /\ (cop \in {"none", "clone", "from", "cmp"}) =>
       /\ CowStr_as_str(cow, mem) = sinput
       /\ CowStr_as_bytes(cow, mem) = sinput
       /\ CowStr_len(cow, mem) = Len(sinput)
  /\ IsSome(other) =>
       /\ CowStr_as_str(other.v, mem) = oinput
       /\ CowStr_as_bytes(other.v, mem) = oinput
       /\ CowStr_len(other.v, mem) = Len(oinput)
  /\ IsSome(ccmp) =>
       /\ ccmp.v.eq <=> (sinput = oinput)
       /\ ccmp.v.ord = Some(str_cmp(sinput, oinput))
       /\ (ccmp.v.ord = Some("Equal")) <=> ccmp.v.eq
       /\ ccmp.v.eq => ccmp.v.hash = ccmp.v.hash2

\* an Owned and an Inlined value of the same content compared equal
C12_Witness ==
  /\ IsSome(ccmp) /\ ccmp.v.eq
  /\ cow.tag = "Owned" /\ other.v.tag = "Inlined"
  /\ Len(sinput) > 0 /\ cop = "cmp"

-----------------------------------------------------------------------------
(* InlineStr comparisons                                                   *)

\* C13: every comparison involving an InlineStr is the comparison of its
\* string content: c.partial_cmp(s) for a char c is the order of c's
\* one-character string against the whole content of s (also when s holds
\* several characters or none), and likewise for str, String, Cow<str>
\* and InlineStr operands; == agrees with it.
C13_ComparesContent ==
  IsSome(scmp) =>
    /\ scmp.v.ord = Some(str_cmp(scmp.v.a, scmp.v.b))
    /\ scmp.v.eq <=> (scmp.v.a = scmp.v.b)

-----------------------------------------------------------------------------
(* SmallString properties                                                  *)

\* C14: after any sequence of constructions (new, from_str, From<String>,
\* From<&str>, clone) and push / push_str calls the stored bytes are the
\* concatenation of the UTF-8 encodings of the inputs in call order, hence
\* valid UTF-8, also when the spill happens inside a character or a slice.
C14_BytesAreConcatenation ==
  IsSome(ss) =>
    /\ SmallString_as_str(ss.v) = ssrc
    /\ SmallString_len(ss.v) = Len(ssrc)
    /\ from_utf8_ok(SmallString_as_str(ss.v))

\* the last push was of a multi-byte character whose lead byte is byte N of
\* the string and whose continuation bytes follow it on the heap
C14_Witness ==
  /\ IsSome(ss) /\ ssop = "push"
  /\ sN >= 1 /\ Len(ssrc) > sN /\ Len(ssrc) <= sN + 3
  /\ ssrc[sN] >= 192 /\ IsCont(ssrc[Len(ssrc)])
  /\ ~SmallString_is_inline(ss.v)
  /\ SmallString_as_str(ss.v) = ssrc

\* C15: a SmallString<N> is inline exactly when len() <= N, and from_str(s)
\* (also behind From<&str> and From<String>) has the content and the
\* inline / heap representation of new() followed by push_str(s).
C15_InlineIffFits ==
  IsSome(ss) =>
    /\ SmallString_is_inline(ss.v) <=> SmallString_len(ss.v) <= sN
    /\ ssop \in {"from_str", "from_string", "from_ref"} =>
         LET t == SmallString_push_str(SmallString_new(sN), sN, ssrc) IN
           /\ SmallString_as_str(ss.v) = SmallString_as_str(t)
           /\ SmallString_is_inline(ss.v) = SmallString_is_inline(t)

\* from_str of a string of exactly N bytes is inline
C15_Witness ==
  /\ IsSome(ss) /\ ssop = "from_str"
  /\ sN > 0 /\ Len(ssrc) = sN /\ SmallString_is_inline(ss.v)

-----------------------------------------------------------------------------
(* CompactVec: construction, clear, extend                                 *)

\* C17: with_capacity(c) returns an empty container; for c <= N it is
\* inline with capacity() = N, exactly as new(); for c > N it is spilled
\* with capacity() >= c although it holds no elements.
C17_WithCapacity ==
  (lastOp = "with_capacity" /\ IsSome(obs)) =>
    LET c == obs.v.capacity IN
      /\ CompactVec_len(cv) = 0
      /\ CompactVec_is_empty(cv)
      /\ c <= N => /\ CompactVec_is_inline(cv)
                   /\ CompactVec_capacity(cv, N) = N
                   /\ cv = CompactVec_new(N)
      /\ c > N => /\ ~CompactVec_is_inline(cv)
                  /\ CompactVec_capacity(cv, N) >= c

\* with_capacity(N + 1) has returned a spilled, empty container
C17_Witness ==
  /\ lastOp = "with_capacity" /\ IsSome(obs)
  /\ obs.v.capacity = N + 1
  /\ ~CompactVec_is_inline(cv) /\ CompactVec_len(cv) = 0

\* C18: clear() leaves the container empty and inline (len() = 0,
\* is_inline(), capacity() = N) from any reachable state, inline or
\* spilled, a spilled container holding no elements included.
C18_ClearResets ==
  lastOp = "clear" =>
    /\ CompactVec_len(cv) = 0
    /\ CompactVec_is_inline(cv)
    /\ CompactVec_capacity(cv, N) = N
    /\ CompactVec_as_slice(cv) = <<>>

\* clear() was called on a spilled container that held no elements
C18_Witness ==
  /\ lastOp = "clear" /\ IsSome(obs)
  /\ ~obs.v.was_inline /\ obs.v.was_len = 0
  /\ CompactVec_is_inline(cv)

\* C19: extend(seq) leaves the old content followed by seq's items in
\* order, and within one extend call the representation never goes from
\* heap to inline, so it changes from inline to heap at most once.
C19_ExtendSpillsOnce ==
  (lastOp = "extend" /\ IsSome(obs)) =>
    /\ CompactVec_as_slice(cv) = obs.v.before \o obs.v.items
    /\ \A i, j \in DOMAIN obs.v.inline :
         (i < j /\ ~obs.v.inline[i]) => ~obs.v.inline[j]
    /\ CompactVec_is_inline(cv) = obs.v.inline[Len(obs.v.inline)]

\* an extend by two items that spilled at its first push
C19_Witness ==
  /\ lastOp = "extend" /\ IsSome(obs)
  /\ Len(obs.v.items) = 2 /\ N > 0
  /\ obs.v.inline = <<TRUE, FALSE, FALSE>>
  /\ CompactVec_as_slice(cv) = obs.v.before \o obs.v.items

-----------------------------------------------------------------------------
(* CompactVec: comparison and indexing                                     *)

\* a is a proper prefix of b, or is smaller at the first position they differ
LexLess(a, b) ==
  \E i \in 1 .. Len(b) :
    /\ \A j \in 1 .. i - 1 : j <= Len(a) /\ a[j] = b[j]
    /\ (i > Len(a) \/ (i <= Len(a) /\ a[i] < b[i]))
    /\ i <= Len(a) + 1

\* C16: two CompactVecs with the same element sequence compare equal, order
\* as Equal and hash identically whatever their representations (inline or
\* spilled), and the order between containers is the lexicographic order
\* of their element sequences.
C16_CompareByContent ==
  (IsSome(obs) /\ obs.v.kind = "cmp") =>
    LET a == CompactVec_as_slice(cv)
        b == CompactVec_as_slice(obs.v.that)
    IN
      /\ obs.v.eq <=> (a = b)
      /\ a = b => /\ obs.v.ord = "Equal"
                  /\ obs.v.hash = obs.v.hash2
      /\ obs.v.ord = "Less" <=> LexLess(a, b)
      /\ obs.v.ord = "Greater" <=> LexLess(b, a)
      /\ obs.v.pord = Some(obs.v.ord)

\* an inline container compared equal to a spilled one with the same elements
C16_Witness ==
  /\ IsSome(obs) /\ obs.v.kind = "cmp"
  /\ CompactVec_is_inline(cv) /\ ~CompactVec_is_inline(obs.v.that)
  /\ CompactVec_len(cv) > 0
  /\ CompactVec_as_slice(cv) = CompactVec_as_slice(obs.v.that)
  /\ obs.v.eq /\ obs.v.ord = "Equal" /\ obs.v.hash = obs.v.hash2

\* C20: cv[i] returns element i of as_slice() when i < len() and panics,
\* returning nothing and leaving the container unchanged, when i >= len(),
\* inline or spilled; a write through index_mut changes position i only.
C20_IndexChecked ==
  /\ (IsSome(obs) /\ obs.v.kind = "index") =>
       /\ obs.v.i < CompactVec_len(cv) =>
            obs.v.r = Value(CompactVec_as_slice(cv)[obs.v.i + 1])
       /\ obs.v.i >= CompactVec_len(cv) => obs.v.r = Panic
  /\ (IsSome(obs) /\ obs.v.kind = "index_mut") =>
       /\ obs.v.i < Len(obs.v.before) =>
            /\ obs.v.r.tag = "Value"
            /\ CompactVec_as_slice(cv) =
                 [obs.v.before EXCEPT ![obs.v.i + 1] = obs.v.value]
       /\ obs.v.i >= Len(obs.v.before) =>
            /\ obs.v.r = Panic
            /\ CompactVec_as_slice(cv) = obs.v.before
  /\ (lastOp \in {"index", "index_mut"} /\ phase = "live") =>
       CompactVec_as_slice(cv) = vec

\* an index equal to len() panicked on an inline container with a free slot
C20_Witness ==
  /\ IsSome(obs) /\ obs.v.kind = "index"
  /\ CompactVec_is_inline(cv) /\ CompactVec_len(cv) < N
  /\ CompactVec_len(cv) > 0
  /\ obs.v.i = CompactVec_len(cv) /\ obs.v.r = Panic

-----------------------------------------------------------------------------
(* C21: into_vec() returns the elements of as_slice() in order; a spilled  *)
(* container hands over its heap Vec as it is (same array, same capacity), *)
(* an inline one allocates once, Vec::with_capacity(len), and never grows  *)
(* it. The same holds for into_iter(), which is into_vec().into_iter().    *)
C21_IntoVecContent ==
  (lastOp \in {"into_vec", "into_iter"} /\ IsSome(obs)) =>
    /\ IsSome(outVec)
    /\ outVec.v.buf = obs.v.before
    /\ outVec.v.buf = vec
    /\ IsSome(obs.v.heap) => outVec.v = obs.v.heap.v
    /\ ~IsSome(obs.v.heap) => outVec.v.cap = Len(obs.v.before)

\* a spilled container whose Vec has spare capacity was turned into a Vec
C21_Witness ==
  /\ lastOp = "into_vec" /\ IsSome(obs)
  /\ IsSome(obs.v.heap)
  /\ Len(obs.v.before) > N
  /\ obs.v.heap.v.cap > Len(obs.v.before)
  /\ outVec = obs.v.heap

-----------------------------------------------------------------------------
(* C28: a live CompactVec has exactly one active representation: either    *)
(* no heap Vec, an inline length field of at most N and that many leading  *)
(* slots holding live elements (written, not destroyed, not moved out to   *)
(* the caller), or a heap Vec with the inline length field at 0, so that   *)
(* no inline slot counts as holding an element.                            *)
InlineLive(self) == [i \in 1 .. self.len |-> self.inline[i]]

C28_OneRepresentation ==
  phase = "live" =>
    \/ /\ cv.heap = None
       /\ cv.len <= N
       /\ InlineLive(cv) = vec
       /\ \A i \in 1 .. cv.len :
            /\ cv.inline[i] # Uninit
            /\ drops[cv.inline[i]] = 0
            /\ cv.inline[i] \notin caller
    \/ /\ IsSome(cv.heap)
       /\ cv.len = 0
       /\ InlineLive(cv) = <<>>

\* a push spilled a full inline array and a pop moved the elements back
C28_Witness ==
  /\ phase = "live" /\ lastOp = "pop" /\ IsSome(obs)
  /\ N > 0
  /\ IsSome(obs.v.before.heap) /\ obs.v.before.len = 0
  /\ cv.heap = None /\ cv.len = N
  /\ InlineLive(cv) = vec

-----------------------------------------------------------------------------
(* C29: pop() on an empty container returns None and leaves the container  *)
(* as it was: same len(), content, capacity and representation, for an     *)
(* empty inline container and for the empty spilled container that         *)
(* with_capacity(c), c > N, creates.                                       *)
C29_PopEmpty ==
  (lastOp = "pop" /\ IsSome(obs) /\ CompactVec_len(obs.v.before) = 0) =>
    /\ ret = None
    /\ vecRet = None
    /\ cv = obs.v.before
    /\ CompactVec_len(cv) = 0
    /\ CompactVec_as_slice(cv) = <<>>
    /\ CompactVec_capacity(cv, N) = CompactVec_capacity(obs.v.before, N)
    /\ CompactVec_is_inline(cv) = CompactVec_is_inline(obs.v.before)

\* pop() on the spilled container made by with_capacity(N + 1)
C29_Witness ==
  /\ lastOp = "pop" /\ IsSome(obs)
  /\ ctor = "with_capacity"
  /\ obs.v.before = CompactVec_with_capacity(N, N + 1)
  /\ ~CompactVec_is_inline(cv)
  /\ CompactVec_capacity(cv, N) = N + 1
  /\ ret = None

-----------------------------------------------------------------------------
(* C30: capacity() is N for an inline container, is at least len() in      *)
(* every state, and right after a push that spilled is at least 2N + 1,    *)
(* hence above N.                                                          *)
C30_Capacity ==
  phase = "live" =>
    /\ CompactVec_is_inline(cv) => CompactVec_capacity(cv, N) = N
    /\ CompactVec_capacity(cv, N) >= CompactVec_len(cv)
    /\ (lastOp = "push" /\ IsSome(obs) /\ obs.v.was_inline
        /\ ~CompactVec_is_inline(cv)) =>
         /\ CompactVec_capacity(cv, N) >= 2 * N + 1
         /\ CompactVec_capacity(cv, N) > N

\* a push has just spilled a full inline array of N > 0 elements
C30_Witness ==
  /\ phase = "live" /\ lastOp = "push" /\ IsSome(obs)
  /\ obs.v.was_inline /\ ~CompactVec_is_inline(cv)
  /\ N > 0
  /\ CompactVec_len(cv) = N + 1
  /\ CompactVec_capacity(cv, N) = 2 * N + 1

-----------------------------------------------------------------------------
(* C23: serializing a CompactVec writes its current elements in order,     *)
(* whatever the representation, and deserializing what was written gives   *)
(* a container with equal content in the representation new() and pushes   *)
(* give: inline iff the number of elements is at most N.                   *)
C23_SerdeRoundTrip ==
  (IsSome(obs) /\ obs.v.kind = "serde") =>
    LET ser == obs.v.ser
        de  == obs.v.de
    IN
      /\ ser.elems = vec
      /\ ser.elems = CompactVec_as_slice(cv)
      /\ ser.len_hint = Some(Len(vec))
      /\ CompactVec_as_slice(de) = vec
      /\ CompactVec_eq(de, cv)
      /\ CompactVec_is_inline(de) <=> (Len(vec) <= N)
      /\ de = CompactVec_from_iter(N, vec)

\* a spilled container holding no more than N elements comes back inline
C23_Witness ==
  /\ IsSome(obs) /\ obs.v.kind = "serde"
  /\ ~CompactVec_is_inline(cv)
  /\ Len(vec) = N /\ N > 0
  /\ obs.v.ser.elems = vec
  /\ CompactVec_is_inline(obs.v.de)
  /\ CompactVec_as_slice(obs.v.de) = vec

-----------------------------------------------------------------------------
(* C22: clone() gives a container equal to the original and in the same    *)
(* representation; afterwards a push, pop, clear or element write on one   *)
(* of the two leaves the content of the other as it was: the clone follows *)
(* only the operations applied to it, and so does the original.            *)
C22_CloneIndependent ==
  IsSome(cv2) =>
    /\ CompactVec_as_slice(cv2.v) = vec2
    /\ phase = "live" => CompactVec_as_slice(cv) = vec
    /\ c2op = "clone" =>
         /\ CompactVec_eq(cv2.v, src2.v)
         /\ CompactVec_as_slice(cv2.v) = CompactVec_as_slice(src2.v)
         /\ CompactVec_is_inline(cv2.v) = CompactVec_is_inline(src2.v)
         /\ CompactVec_len(cv2.v) = CompactVec_len(src2.v)

\* a spilled container was cloned, then the original popped back inline and
\* the clone was written to: each holds what its own operations left
C22_Witness ==
  /\ IsSome(cv2) /\ c2op = "write"
  /\ phase = "live" /\ lastOp = "pop"
  /\ ~CompactVec_is_inline(src2.v)
  /\ CompactVec_is_inline(cv)
  /\ ~CompactVec_is_inline(cv2.v)
  /\ Len(vec2) = Len(vec) + 1
  /\ CompactVec_as_slice(cv) = vec
  /\ CompactVec_as_slice(cv2.v) = vec2
  /\ vec2 # CompactVec_as_slice(src2.v)

-----------------------------------------------------------------------------
(* C24: converting into a CowStr gives Borrowed from a &str, Owned from a  *)
(* String whatever its length, Inlined from a char and from a Cow<char>,   *)
(* and from a Cow<str> the variant of the Cow; the content is that of the  *)
(* source in every case.                                                   *)
C24_FromVariants ==
  (IsSome(other) /\ cop \in {"from_str", "from_string", "from_char",
                             "from_cow_borrowed", "from_cow_owned",
                             "from_cow_char"}) =>
    /\ CowStr_as_str(other.v, mem) = oinput
    /\ cop = "from_str" => other.v.tag = "Borrowed"
    /\ cop = "from_string" => other.v.tag = "Owned"
    /\ cop = "from_char" => other.v.tag = "Inlined"
    /\ cop = "from_cow_char" => other.v.tag = "Inlined"
    /\ cop = "from_cow_borrowed" => other.v.tag = "Borrowed"
    /\ cop = "from_cow_owned" => other.v.tag = "Owned"

\* a String short enough for an InlineStr became Owned
C24_Witness ==
  /\ IsSome(other) /\ cop = "from_string"
  /\ Len(oinput) > 0 /\ Len(oinput) <= MAX_INLINE_STR_LEN
  /\ other.v.tag = "Owned"
  /\ CowStr_as_str(other.v, mem) = oinput

-----------------------------------------------------------------------------
(* C25: InlineStr::from(char) succeeds for every char; the result's len()  *)
(* is the char's UTF-8 length, between 1 and 4 and never above             *)
(* MAX_INLINE_STR_LEN, and its content is that one character.              *)
C25_FromChar ==
  sop = "from_char" =>
    /\ IsSome(istr) /\ sres = "Value"
    /\ \E c \in Chars \cup EdgeChars :
         /\ sinput = encode_utf8(c)
         /\ InlineStr_len(istr.v) = len_utf8(c)
         /\ InlineStr_as_str(istr.v) = encode_utf8(c)
    /\ InlineStr_len(istr.v) \in 1 .. 4
    /\ InlineStr_len(istr.v) <= MAX_INLINE_STR_LEN
    /\ from_utf8_ok(InlineStr_as_str(istr.v))

\* the last char, U+10FFFF, converted on the narrow target
C25_Witness ==
  /\ sop = "from_char" /\ IsSome(istr)
  /\ word = 4
  /\ sinput = encode_utf8(1114111)
  /\ InlineStr_len(istr.v) = 4
  /\ InlineStr_as_str(istr.v) = <<244, 143, 191, 191>>

-----------------------------------------------------------------------------
(* C27: a CowStr occupies exactly 3 machine words: the MAX_INLINE_STR_LEN  *)
(* = 3 * word - 2 buffer bytes, the length byte and the discriminant byte  *)
(* add up to 3 * word, on 4-byte and on 8-byte words.                      *)
C27_ThreeWords ==
  /\ word \in {4, 8}
  /\ MAX_INLINE_STR_LEN + 1 + 1 = 3 * word
  /\ size_of_CowStr = 3 * word
  /\ 1 + size_of_InlineStr = size_of_CowStr
  /\ cow.tag = "Inlined" =>
       /\ Len(cow.s.buf) = MAX_INLINE_STR_LEN
       /\ 1 + Len(cow.s.buf) + 1 = size_of_CowStr

\* an Inlined CowStr holding MAX_INLINE_STR_LEN = 10 bytes on 4-byte words
C27_Witness ==
  /\ word = 4
  /\ cow.tag = "Inlined"
  /\ cow.s.len = 10
  /\ Len(cow.s.buf) = 10
  /\ size_of_CowStr = 12

-----------------------------------------------------------------------------
(* C26: a String or &str converted to SmallString<N> and back, by          *)
(* into_string() or String::from, is the original string, for every        *)
(* content and every N, inline or spilled.                                 *)
C26_RoundTrip ==
  (ssop \in {"into_string", "string_from"}) =>
    /\ IsSome(sout)
    /\ sout.v = ssrc
    /\ from_utf8_ok(sout.v)

\* a string longer than N, spilled on conversion, came back through
\* String::from
C26_Witness ==
  /\ ssop = "string_from" /\ IsSome(sout)
  /\ sN > 0
  /\ Len(ssrc) = sN + 1
  /\ ssrc \in SmallInputs
  /\ sout.v = ssrc

-----------------------------------------------------------------------------
(* C31: on an InlineStr built by try_from, from_str (also through         *)
(* From<&T>) or From<char> the checked as_mut_str() returns Ok, and         *)
(* upper-casing the ASCII letters through it shows in as_str(), as_bytes() *)
(* and in later comparisons, while len() stays what it was.                *)
C31_AsMutStr ==
  (/\ IsSome(smut)
   /\ smut.v.checked
   /\ sop \in {"as_mut_str", "cmp"}) =>
    LET up == make_ascii_uppercase(smut.v.before) IN
      /\ smut.v.r = "Ok"
      /\ smut.v.before = sinput
      /\ IsSome(istr)
      /\ InlineStr_len(istr.v) = smut.v.len
      /\ InlineStr_as_bytes(istr.v) = up
      /\ InlineStr_as_str(istr.v) = up
      /\ (sop = "cmp" /\ IsSome(scmp)) =>
           /\ scmp.v.lhs \in {"InlineStr", "Ord"} =>
                /\ scmp.v.a = up
                /\ scmp.v.eq <=> (up = scmp.v.b)
           /\ scmp.v.lhs \in {"str", "char"} =>
                /\ scmp.v.b = up
                /\ scmp.v.eq <=> (scmp.v.a = up)

\* "a" followed by a two-byte character was parsed, upper-cased in place and
\* then found equal to the upper-cased text
C31_Witness ==
  /\ IsSome(smut) /\ smut.v.checked /\ smut.v.r = "Ok"
  /\ sop = "cmp" /\ IsSome(scmp)
  /\ smut.v.before = <<97, 195, 169>>
  /\ InlineStr_as_str(istr.v) = <<65, 195, 169>>
  /\ InlineStr_len(istr.v) = 3
  /\ scmp.v.lhs = "InlineStr"
  /\ scmp.v.b = <<65, 195, 169>>
  /\ scmp.v.eq

-----------------------------------------------------------------------------
(* C32: a CowStr converted into Cow<str> is Cow::Borrowed for Borrowed and *)
(* Cow::Owned for Owned and Inlined; into_string, into_owned and           *)
(* String::from give the content for every variant; a Cow<str> converted   *)
(* to CowStr and back keeps its content and its borrowed / owned kind.     *)
C32_ConvertOut ==
  IsSome(cout) =>
    LET o == cout.v IN
      /\ o.op = "into_cow" =>
           /\ o.r.b = o.src
           /\ o.from = "Borrowed" => o.r.tag = "Borrowed"
           /\ o.from \in {"Owned", "Inlined"} => o.r.tag = "Owned"
      /\ o.op \in {"into_string", "into_owned", "string_from"} => o.r = o.src
      /\ o.op = "round_trip" => o.r = [tag |-> o.from, b |-> o.src]

\* an Inlined CowStr holding a non-empty string became Cow::Owned
C32_Witness ==
  /\ IsSome(cout) /\ cout.v.op = "into_cow"
  /\ cout.v.from = "Inlined" /\ cow.tag = "Inlined"
  /\ Len(cout.v.src) > 1
  /\ cout.v.r = Cow_Owned(sinput)

-----------------------------------------------------------------------------
(* C33: a CowStr deserialized from a string of at most MAX_INLINE_STR_LEN  *)
(* bytes is Inlined or Borrowed, never Owned, and its content is the       *)
(* serialized string, whether the deserializer delivers a borrowed str, a  *)
(* transient str or an owned String.                                       *)
C33_DeserializeShort ==
  (IsSome(other)
   /\ cop \in {"visit_borrowed_str", "visit_str", "visit_string"}) =>
    /\ CowStr_as_str(other.v, mem) = oinput
    /\ Len(oinput) <= MAX_INLINE_STR_LEN =>
         other.v.tag \in {"Inlined", "Borrowed"}

-----------------------------------------------------------------------------
(* C34: for a char c and an InlineStr s, c == s holds exactly when         *)
(* c.partial_cmp(s) is Some(Equal); s == c holds exactly when c == s, and  *)
(* that is exactly when the content of s is the single character c.        *)
C34_CharEqConsistent ==
  (IsSome(scmp) /\ scmp.v.lhs = "char") =>
    /\ scmp.v.eq <=> (scmp.v.ord = Some("Equal"))
    /\ scmp.v.rev <=> scmp.v.eq
    /\ scmp.v.eq <=> (scmp.v.b = scmp.v.a)

\* C35: the bytes of the buffer at positions >= len influence no result.
\* Whenever an InlineStr is compared with a second one of the same len and
\* the same first len bytes whose buffer differs past len, the two are
\* equal, order as Equal, write the same bytes to a Hasher and return the
\* same as_str() and as_bytes().
C35_TrailingBytesUnobservable ==
  (IsSome(scmp) /\ scmp.v.lhs = "twin") =>
    /\ scmp.v.eq
    /\ scmp.v.ord = Some("Equal")
    /\ scmp.v.hash
    /\ scmp.v.b = scmp.v.a
    /\ scmp.v.bytes

\* a non-empty InlineStr whose own buffer is non-zero past len (built by
\* InlineStr::new with a len shorter than the text) has been compared
C35_Witness ==
  /\ IsSome(scmp) /\ scmp.v.lhs = "twin"
  /\ istr.v.len > 0
  /\ \E i \in DOMAIN istr.v.buf : i > istr.v.len /\ istr.v.buf[i] # 0

=============================================================================
